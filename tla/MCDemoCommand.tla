--------------------------- MODULE MCDemoCommand ---------------------------
(***************************************************************************)
(* Captures, pack responses and foreign documents for TLC.                 *)
(***************************************************************************)
EXTENDS DemoCommand

Names == [name \in {"type", "data-test", "data_test", "password"} |->
            IF name = "data_test" THEN "data-test" ELSE name]

Item(id, page, name) ==
  [id |-> id, page_id |-> page, role |-> "textbox", name |-> name, text |-> "",
   attributes |-> <<"data-test", "type">>]

At(element) == [id |-> <<"locator", element>>, element_id |-> element, priority |-> 1]

\* The capture of a login that leads to the inventory.
Login ==
  [pages |-> <<[id |-> "login", endings |-> {"/"}],
               [id |-> "inventory", endings |-> {"/inventory"}]>>,
   elements |-> <<Item("user", "login", "username"), Item("pass", "login", "password"),
                  Item("button", "login", "login"),
                  [Item("title", "inventory", "title") EXCEPT
                     !.role = "heading", !.text = "Products"]>>,
   locators |-> <<At("user"), At("pass"), At("button"), At("title")>>,
   interactions |-> <<[id |-> "go", source_page_id |-> "login",
                       target_element_id |-> "button", action |-> "click",
                       outcome_type |-> "navigation", outcome_value |-> "/inventory"]>>]

NoHeading == [Login EXCEPT !.elements = SubSeq(@, 1, 3), !.locators = SubSeq(@, 1, 3)]
Empty     == [part \in Collections |-> <<>>]
Ambiguous == [Login EXCEPT !.elements[1].attributes = <<"data-test", "data_test">>]
Dangling  == [Login EXCEPT !.elements = SubSeq(@, 1, 3)]
Leaking   == [Login EXCEPT !.elements[1].attributes = <<"password">>]
TwoLogins == [Login EXCEPT !.interactions = Append(@, [@[1] EXCEPT !.id = "again"])]

SomeCaptures == {Login, NoHeading, Empty, Ambiguous, Dangling, Leaking, TwoLogins}

Evidence(content) ==
  [evidence_id |-> <<"pack evidence", 1>>, workflow_id |-> "w", product_id |-> "demo",
   tool_id |-> ToolId, capture_id |-> "same", captured_at |-> 1, content |-> content]

Response(content) ==
  [request_id |-> "same", workflow_id |-> "w", product_id |-> "demo", pack_id |-> "pack",
   tool_id |-> ToolId, status |-> "succeeded", completed_at |-> 1,
   evidence |-> {Evidence(content)}, failure_code |-> FALSE]

\* Responses of a pack: right, of a failure, and wrong in one way each.
SomeResponses ==
  {Response(Login), Response(Ambiguous), Response(Dangling),
   [Response(Login) EXCEPT !.status = "failed", !.evidence = {}, !.failure_code = TRUE],
   [Response(Login) EXCEPT !.status = "failed"],
   [Response(Login) EXCEPT !.evidence = {}],
   [Response(Login) EXCEPT !.completed_at = 0],
   [Response(Login) EXCEPT !.pack_id = "other"],
   [Response(Login) EXCEPT !.request_id = "earlier"],
   [Response(Login) EXCEPT !.workflow_id = "v"],
   [Response(Login) EXCEPT !.evidence = {[Evidence(Login) EXCEPT !.capture_id = "earlier"]}],
   [Response(Login) EXCEPT !.evidence = {[Evidence(Login) EXCEPT !.captured_at = 0]}]}

SomeTools ==
  {[kind |-> "product", maximum_steps |-> 4,
    captures |-> {{}} \cup {{c} : c \in SomeCaptures}],
   [kind |-> "product", maximum_steps |-> 3, captures |-> {{Login}}],
   [kind |-> "pack", pack_id |-> "pack",
    responses |-> {{}} \cup {{r} : r \in SomeResponses}]}

SomeEvidence ==
  {[Evidence(Login) EXCEPT !.capture_id = "foreign"],
   [Evidence(Ambiguous) EXCEPT !.capture_id = "foreign",
                               !.evidence_id = <<"foreign evidence", 1>>],
   [Evidence(Login) EXCEPT !.workflow_id = "v"]}

SomeContents == {NoHeading, Dangling}

\* Until its workflow has ended the command touches no file and reads none: the
\* steps of the others may as well come after it.  And the files see of a run
\* only what it extracted, which the product agents show in all its forms.
OthersWait ==
  \/ \A c \in Commands \ {Own} : stage[c] = "running"
  \/ node = "end" /\ foreign = {} /\ tool.kind = "product"
=============================================================================
