------------------------------ MODULE Account ------------------------------
(***************************************************************************)
(* The account of a WeChat user: the login of app/auth/wechat_service.py,  *)
(* the identity of app/common/dependencies.py and the deletion of          *)
(* app/user/service.py, next to all that writes the user's data.           *)
(*                                                                         *)
(* WeChat knows people by openid.  The account of an openid is kept by     *)
(* GoTrue, a service reached by HTTP, under an e-mail address and a        *)
(* password that are derived from it; a new account gets a new user id,    *)
(* and data belong to user ids.  Requests and deletions run on one event   *)
(* loop; a deletion sweeps the store without a pause, but tools of the     *)
(* agent write from threads.                                               *)
(***************************************************************************)
EXTENDS Naturals, FiniteSets, Sequences

CONSTANTS
    People,         \* openids
    Ids,            \* user ids GoTrue may give (bound)
    NoId,           \* no account
    Codes,          \* wx.login() codes
    PersonOf,       \* whose they are
    Logins,         \* login requests that may overlap
    Deletions,      \* DELETE /user/account requests that may overlap
    Threads,        \* tools that write from a thread
    Areas,          \* the namespaces that a deletion sweeps, in its order
    Tasks,          \* the one that tools read and write back
    Keys,           \* keys
    KeysOf,         \* those of each area: "config", or as many as there are tasks
    PageSize,       \* what one search returns
    ServiceRole,    \* whether SUPABASE_SERVICE_ROLE_KEY is configured
    Rotations       \* changes of the password secret (bound)

ASSUME AccountAssumption ==
    /\ IsFiniteSet(Ids) /\ NoId \notin Ids
    /\ Codes # {} /\ PersonOf \in [Codes -> People]
    /\ Areas \in Seq({Areas[i] : i \in DOMAIN Areas})
    /\ \A i, j \in DOMAIN Areas : Areas[i] = Areas[j] => i = j
    /\ Tasks \in {Areas[i] : i \in DOMAIN Areas}
    /\ IsFiniteSet(Keys) /\ KeysOf \in [{Areas[i] : i \in DOMAIN Areas} -> SUBSET Keys]
    /\ PageSize \in Nat \ {0}
    /\ ServiceRole \in BOOLEAN /\ Rotations \in Nat

VARIABLES
    account,    \* GoTrue: the account of each person's e-mail address
    given,      \* GoTrue: the ids it has given
    tokens,     \* the ids whose access token has not expired
    secret,     \* the version of WECHAT_PASSWORD_SECRET
    spent,      \* WeChat: the codes that were exchanged
    login,      \* the login requests
    store,      \* the data of each id
    deletion,   \* the deletion requests
    thread,     \* the tools: what they have read, and put back later
    late        \* history: data put since a deletion began, for its id

vars == <<account, given, tokens, secret, spent, login, store, deletion, thread, late>>

Swept   == {Areas[i] : i \in DOMAIN Areas}
Stored    == [Swept -> SUBSET Keys]
NotStored == [n \in Swept |-> {}]
Account == [id : Ids \cup {NoId}, secret : 0 .. Rotations]

\* What a request was answered last: "ok" with a session or {"ok": True},
\* "conflict" with a 500 that names the login, "error" with any other failure.
\* For the record: the account of a login in flight was created or deleted
\* (crossed), GoTrue refused a creation although there was no account
\* (refused), and what a deletion met in an area when it searched it (met).
Answers == {"none", "ok", "conflict", "error"}
Login   == [at : {"idle", "code", "grant", "create", "again"}, code : Codes,
            crossed : BOOLEAN, refused : BOOLEAN, answer : Answers,
            id : Ids \cup {NoId}]
NoLogin == [at |-> "idle", code |-> CHOOSE c \in Codes : TRUE, crossed |-> FALSE,
            refused |-> FALSE, answer |-> "none", id |-> NoId]
Deletion == [at : {"idle", "sweep", "gotrue"}, id : Ids \cup {NoId}, area : DOMAIN Areas,
             page : SUBSET Keys, searched : BOOLEAN, met : Stored, answer : Answers]
NoDeletion == [at |-> "idle", id |-> NoId, area |-> 1, page |-> {},
               searched |-> FALSE, met |-> NotStored, answer |-> "none"]

TypeOK ==
    /\ account \in [People -> Account]
    /\ given \subseteq Ids
    /\ tokens \subseteq Ids
    /\ secret \in 0 .. Rotations
    /\ spent \subseteq Codes
    /\ login \in [Logins -> Login]
    /\ store \in [Ids -> Stored]
    /\ deletion \in [Deletions -> Deletion]
    /\ thread \in [Threads -> SUBSET (Ids \X Keys)]
    /\ late \in [Deletions -> Stored]

Init ==
    /\ account = [p \in People |-> [id |-> NoId, secret |-> 0]]
    /\ given = {} /\ tokens = {} /\ secret = 0 /\ spent = {}
    /\ login = [l \in Logins |-> NoLogin]
    /\ store = [o \in Ids |-> NotStored]
    /\ deletion = [d \in Deletions |-> NoDeletion]
    /\ thread = [w \in Threads |-> {}]
    /\ late = [d \in Deletions |-> NotStored]

\* delete_all_user_data does not give the event loop away.
LoopFree == \A d \in Deletions : deletion[d].at # "sweep"

(***************************************************************************)
(* POST /auth/wechat-login.                                                *)
(***************************************************************************)
PersonIn(l) == PersonOf[login[l].code]
HasAccount(p) == account[p].id # NoId

\* The request of l is answered.
Reply(l, answer, id) ==
    login' = [login EXCEPT ![l] = [NoLogin EXCEPT !.answer = answer, !.id = id]]

\* The account of p changes under the logins of p that are in flight.
Crossed(p) ==
    [l \in Logins |->
        IF login[l].at # "idle" /\ PersonIn(l) = p
        THEN [login[l] EXCEPT !.crossed = TRUE] ELSE login[l]]

LoginStarts(l, code) ==
    /\ LoopFree /\ login[l].at = "idle"
    /\ login' = [login EXCEPT ![l] = [NoLogin EXCEPT !.at = "code", !.code = code]]
    /\ UNCHANGED <<account, given, tokens, secret, spent, store, deletion, thread, late>>

\* _code2session_http: a code is good once; WeChat may refuse for other
\* reasons, or not be reached.
CodeExchanged(l) ==
    /\ LoopFree /\ login[l].at = "code"
    /\ \/ /\ login[l].code \notin spent
          /\ spent' = spent \cup {login[l].code}
          /\ login' = [login EXCEPT ![l].at = "grant"]
       \/ /\ login[l].code \in spent
          /\ spent' = spent
          /\ Reply(l, "error", NoId)
       \/ /\ Reply(l, "error", NoId)
          /\ \E S \in {{}, {login[l].code}} : spent' = spent \cup S
    /\ UNCHANGED <<account, given, tokens, secret, store, deletion, thread, late>>

\* GoTrue gives a session for the derived password.
Granted(l) == HasAccount(PersonIn(l)) /\ account[PersonIn(l)].secret = secret

Session(l) ==
    /\ Granted(l)
    /\ tokens' = tokens \cup {account[PersonIn(l)].id}
    /\ Reply(l, "ok", account[PersonIn(l)].id)

\* The first grant: a returning user is done.
FirstGrant(l) ==
    /\ LoopFree /\ login[l].at = "grant"
    /\ \/ Session(l)
       \/ /\ ~Granted(l)
          /\ login' = [login EXCEPT ![l].at = "create"]
          /\ UNCHANGED tokens
       \/ /\ Reply(l, "error", NoId)
          /\ UNCHANGED tokens
    /\ UNCHANGED <<account, given, secret, spent, store, deletion, thread, late>>

\* Seeded fault: every refusal of the creation is a conflict.
CreateOrConflict(l) ==
    /\ Reply(l, "conflict", NoId)
    /\ UNCHANGED <<account, given>>

\* _gotrue_admin_create for a new e-mail address.  Every 422 becomes a
\* conflict: that of an existing address, and that of an address or password
\* GoTrue does not take.  An account may be created although no answer comes.
CreateAccount(l) ==
    \/ /\ HasAccount(PersonIn(l))
       /\ Reply(l, "conflict", NoId)
       /\ UNCHANGED <<account, given>>
    \/ /\ ~HasAccount(PersonIn(l))
       /\ \E id \in Ids \ given :
            /\ account' = [account EXCEPT ![PersonIn(l)] = [id |-> id, secret |-> secret]]
            /\ given' = given \cup {id}
       /\ \E heard \in BOOLEAN :
            login' = [Crossed(PersonIn(l)) EXCEPT ![l] =
                         IF heard THEN [login[l] EXCEPT !.at = "again"]
                         ELSE [NoLogin EXCEPT !.answer = "error"]]
    \/ /\ ~HasAccount(PersonIn(l))
       /\ login' = [login EXCEPT ![l] = [NoLogin EXCEPT !.answer = "conflict", !.refused = TRUE]]
       /\ UNCHANGED <<account, given>>
    \/ /\ Reply(l, "error", NoId)
       /\ UNCHANGED <<account, given>>

Create(l) ==
    /\ LoopFree /\ login[l].at = "create"
    /\ CreateAccount(l)
    /\ UNCHANGED <<tokens, secret, spent, store, deletion, thread, late>>

\* The new user signs in.
SecondGrant(l) ==
    /\ LoopFree /\ login[l].at = "again"
    /\ \/ Session(l)
       \/ /\ ~Granted(l)
          /\ Reply(l, "conflict", NoId)
          /\ UNCHANGED tokens
       \/ /\ Reply(l, "error", NoId)
          /\ UNCHANGED tokens
    /\ UNCHANGED <<account, given, secret, spent, store, deletion, thread, late>>
(***************************************************************************)
(* Tokens.  POST /auth/token, forwarded to GoTrue, renews the token of an  *)
(* id that has an account; nothing takes one back before it expires.       *)
(***************************************************************************)
Refresh(id) ==
    /\ LoopFree /\ \E p \in People : account[p].id = id
    /\ tokens' = tokens \cup {id}
    /\ UNCHANGED <<account, given, secret, spent, login, store, deletion, thread, late>>

Expires(id) ==
    /\ id \in tokens
    /\ tokens' = tokens \ {id}
    /\ UNCHANGED <<account, given, secret, spent, login, store, deletion, thread, late>>

\* get_current_user_id: the owner's requests.  One whose token is not verified
\* is refused; one without a token is the default user's, who has no account.
Caller(o) == o \in tokens

(***************************************************************************)
(* Writers.                                                                *)
(***************************************************************************)
Put(o, n, k) ==
    /\ store' = [store EXCEPT ![o][n] = @ \cup {k}]
    /\ late' = [d \in Deletions |->
                   IF deletion[d].at # "idle" /\ deletion[d].id = o
                   THEN [late[d] EXCEPT ![n] = late[d][n] \cup {k}] ELSE late[d]]

\* REST endpoints, hitl_node and the DingTalk switches write on the loop.
Write(o, n, k) ==
    /\ LoopFree /\ Caller(o)
    /\ Put(o, n, k)
    /\ UNCHANGED <<account, given, tokens, secret, spent, login, deletion, thread>>

\* update_task in a tool: get, and later put; the turn may outlive the token.
ThreadReads(w, o, k) ==
    /\ thread[w] = {} /\ k \in store[o][Tasks]
    /\ thread' = [thread EXCEPT ![w] = {<<o, k>>}]
    /\ UNCHANGED <<account, given, tokens, secret, spent, login, store, deletion, late>>

ThreadPuts(w) ==
    \E ok \in thread[w] :
        /\ Put(ok[1], Tasks, ok[2])
        /\ thread' = [thread EXCEPT ![w] = {}]
        /\ UNCHANGED <<account, given, tokens, secret, spent, login, deletion>>

(***************************************************************************)
(* DELETE /user/account.                                                   *)
(***************************************************************************)
\* delete_account_endpoint.
DeletionStarts(d, o) ==
    /\ LoopFree /\ deletion[d].at = "idle"
    /\ Caller(o)
    /\ deletion' = [deletion EXCEPT ![d] = [NoDeletion EXCEPT !.at = "sweep", !.id = o]]
    /\ UNCHANGED <<account, given, tokens, secret, spent, login, store, thread, late>>

Area(d) == Areas[deletion[d].area]

\* A search returns the area, or a page of it.
SearchArea(d) ==
    /\ deletion[d].at = "sweep" /\ ~deletion[d].searched
    /\ LET held == store[deletion[d].id][Area(d)] IN
       \E S \in SUBSET held :
        /\ Cardinality(S) = PageSize \/ S = held
        /\ Cardinality(S) <= PageSize
        /\ deletion' = [deletion EXCEPT ![d].page = S, ![d].searched = TRUE,
                                        ![d].met[Area(d)] = held]
    /\ UNCHANGED <<account, given, tokens, secret, spent, login, store, thread, late>>

DeleteKey(d) ==
    \E k \in deletion[d].page :
        /\ deletion' = [deletion EXCEPT ![d].page = @ \ {k}]
        /\ store' = [store EXCEPT ![deletion[d].id][Area(d)] = @ \ {k}]
        /\ UNCHANGED <<account, given, tokens, secret, spent, login, thread, late>>

\* Seeded fault: the last area is forgotten.
ShortSweep(d) == deletion[d].area + 1 < Len(Areas)

\* Seeded fault: one area too many.
LongSweep(d) == deletion[d].area <= Len(Areas)

MoreAreas(d) == deletion[d].area < Len(Areas)

NextArea(d) ==
    /\ deletion[d].searched /\ deletion[d].page = {}
    /\ deletion' = [deletion EXCEPT ![d] =
                       IF MoreAreas(d)
                       THEN [@ EXCEPT !.area = deletion[d].area + 1, !.searched = FALSE]
                       ELSE [@ EXCEPT !.at = "gotrue", !.area = 1, !.searched = FALSE]]
    /\ UNCHANGED <<account, given, tokens, secret, spent, login, store, thread, late>>

Answer(d, answer) ==
    /\ deletion' = [deletion EXCEPT ![d] = [NoDeletion EXCEPT !.answer = answer]]
    /\ late' = [late EXCEPT ![d] = NotStored]

\* The store raises: part of the data is gone.
SweepFails(d) ==
    /\ deletion[d].at = "sweep"
    /\ Answer(d, "error")
    /\ UNCHANGED <<account, given, tokens, secret, spent, login, store, thread>>

\* _gotrue_admin_delete.  Without a service role nothing is asked; an account
\* that is gone already is as good as deleted; GoTrue may not be reached, or
\* delete the account and not be heard.
AccountDeleted(d) ==
    LET ps == {p \in People : account[p].id = deletion[d].id} IN
    /\ LoopFree /\ deletion[d].at = "gotrue"
    /\ \/ /\ ServiceRole
          /\ account' = [p \in People |-> IF p \in ps THEN [id |-> NoId, secret |-> 0]
                                         ELSE account[p]]
          /\ login' = [l \in Logins |-> IF PersonIn(l) \in ps THEN Crossed(PersonIn(l))[l]
                                        ELSE login[l]]
          /\ \E answer \in {"ok", "error"} : Answer(d, answer)
       \/ /\ Answer(d, IF ServiceRole THEN "error" ELSE "ok")
          /\ UNCHANGED <<account, login>>
    /\ UNCHANGED <<given, tokens, secret, spent, store, thread>>

(***************************************************************************)
(* The process restarts, maybe with another password secret.               *)
(***************************************************************************)
Restart ==
    /\ secret' \in {secret} \cup ({secret + 1} \cap (0 .. Rotations))
    /\ login' = [l \in Logins |-> NoLogin]
    /\ deletion' = [d \in Deletions |-> NoDeletion]
    /\ thread' = [w \in Threads |-> {}]
    /\ late' = [d \in Deletions |-> NotStored]
    /\ UNCHANGED <<account, given, tokens, spent, store>>

LoginStep(l) ==
    CodeExchanged(l) \/ FirstGrant(l) \/ Create(l) \/ SecondGrant(l)

DeletionStep(d) ==
    SearchArea(d) \/ DeleteKey(d) \/ NextArea(d) \/ SweepFails(d) \/ AccountDeleted(d)

Next ==
    \/ \E l \in Logins : LoginStep(l) \/ \E code \in Codes : LoginStarts(l, code)
    \/ \E id \in Ids : Refresh(id) \/ Expires(id)
    \/ \E o \in Ids, n \in Swept : \E k \in KeysOf[n] : Write(o, n, k)
    \/ \E w \in Threads, o \in Ids, k \in KeysOf[Tasks] : ThreadReads(w, o, k)
    \/ \E w \in Threads : ThreadPuts(w)
    \/ \E d \in Deletions : DeletionStep(d) \/ \E o \in Ids : DeletionStarts(d, o)
    \/ Restart

Spec == Init /\ [][Next]_vars

-----------------------------------------------------------------------------
(***************************************************************************)
(* Properties.                                                             *)
(***************************************************************************)
\* A person with a good code is turned away with a conflict or without a
\* session only when the account was created or deleted while the login
\* was under way, or belongs to another secret, or GoTrue does not take it;
\* and who is let in gets the account that the person has then.
LoginIsSound ==
    [][\A l \in Logins : login[l].at # "idle" /\ login'[l].at = "idle" =>
          /\ login'[l].answer = "conflict" =>
                \/ login[l].crossed \/ login'[l].refused
                \/ HasAccount(PersonIn(l)) /\ account[PersonIn(l)].secret # secret
          /\ login'[l].answer = "ok" => login'[l].id = account'[PersonIn(l)].id]_vars

\* What one page of a search cannot show of S.
BeyondPage(S) == IF Cardinality(S) > PageSize THEN Cardinality(S) - PageSize ELSE 0

\* d is reported as done by the step.
Done(d) == deletion[d].at = "gotrue" /\ deletion'[d].answer = "ok"

\* When a deletion is reported as done, the account is gone if it could be,
\* and of all that an area held when it was searched no more is left than did
\* not fit on the page: nothing, in an area that a page shows whole.  Whatever
\* else is there was written after the deletion began.  So it is whatever tools
\* and requests did meanwhile, and however often the deletion was tried before.
DeletionLeavesNothing ==
    [][\A d \in Deletions : Done(d) =>
          LET o == deletion[d].id IN
          /\ ServiceRole => \A p \in People : account'[p].id # o
          /\ \A n \in Swept :
                LET left == store[o][n] \ late[d][n]
                    met  == deletion[d].met[n]
                IN  left \subseteq met /\ Cardinality(left) <= BeyondPage(met)]_vars

\* memory.py:82-88 promises more: the deletion "clears all keys the user owns
\* across the memory areas".
DeletionClearsAll ==
    [][\A d \in Deletions : Done(d) =>
          \A n \in Swept : store[deletion[d].id][n] \subseteq late[d][n]]_vars
=============================================================================
