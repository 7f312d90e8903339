---------------------------- MODULE MCTurnTools ----------------------------
(***************************************************************************)
(* TurnTools on a small instance: two users, of whom one chats; DingTalk   *)
(* lists a tool, one with a schema to repair in all the places that        *)
(* _sanitize_schema visits, and sometimes one that cannot be converted.    *)
(***************************************************************************)
EXTENDS TurnTools

CONSTANTS u1, u2, c1, dingtalk, rag

OneConversation == [c \in {c1} |-> u1]
BothCatalogs == [s \in {dingtalk, rag} |->
                    IF s = dingtalk THEN <<"query", "create", "odd">> ELSE <<"ask">>]

Plain == [standard |-> TRUE, required |-> {}, misplaced |-> {}, within |-> "root"]
Messy == <<[Plain EXCEPT !.required = {"id"}, !.misplaced = {"title"}],
           [Plain EXCEPT !.within = "properties", !.standard = FALSE],
           [Plain EXCEPT !.within = "list", !.standard = FALSE, !.misplaced = {"x"}],
           [Plain EXCEPT !.within = "keyword", !.misplaced = {"y"}]>>

Schemas == [n \in {"query", "create", "odd", "ask"} |->
               CASE n = "query"  -> Messy
                 [] n = "odd"    -> Unparseable
                 [] OTHER        -> <<Plain>>]

\* All is well, the other server is broken, or DingTalk is switched off.
SomeFiles == {[s \in {dingtalk, rag} |-> "valid"],
              [s \in {dingtalk, rag} |-> IF s = dingtalk THEN "valid" ELSE "invalid"],
              [s \in {dingtalk, rag} |-> IF s = dingtalk THEN "disabled" ELSE "valid"]}
============================================================================
