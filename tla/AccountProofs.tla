---------------------------- MODULE AccountProofs ----------------------------
(***************************************************************************)
(* TypeOK, LoginIsSound and DeletionLeavesNothing of module Account for    *)
(* any number of people, overlapping logins and deletions, writers, areas  *)
(* and keys, and changes of the password secret.                           *)
(*                                                                         *)
(* What a login found out at GoTrue is true until the account changes, and *)
(* then the login is crossed: Knows says so of every login that is not.    *)
(* What a deletion has swept holds nothing but what was put since it began *)
(* and what its search could not show: SweepInv says so of every deletion. *)
(***************************************************************************)
EXTENDS Account, FiniteSetTheorems, TLAPS

LEMMA Nothing ==
    /\ NoLogin \in Login /\ NoDeletion \in Deletion
    /\ NoLogin.at = "idle" /\ NoLogin.answer = "none"
    /\ NoDeletion.at = "idle" /\ NotStored \in Stored
    /\ Tasks \in Swept /\ \A n \in Swept : KeysOf[n] \subseteq Keys
    /\ Len(Areas) \in Nat /\ DOMAIN Areas = 1 .. Len(Areas)
  <1> USE AccountAssumption
  <1>1. (CHOOSE c \in Codes : TRUE) \in Codes
    OBVIOUS
  <1>2. NoLogin \in Login /\ NoLogin.at = "idle" /\ NoLogin.answer = "none"
    BY <1>1 DEF NoLogin, Login, Answers
  <1>3. Len(Areas) \in Nat /\ DOMAIN Areas = 1 .. Len(Areas)
    OBVIOUS
  <1>4. 1 \in DOMAIN Areas
    <2>1. PICK i \in DOMAIN Areas : Tasks = Areas[i]
      OBVIOUS
    <2> QED  BY <2>1, <1>3
  <1>5. NotStored \in Stored /\ Tasks \in Swept /\ \A n \in Swept : KeysOf[n] \subseteq Keys
    BY DEF NotStored, Stored, Swept
  <1>6. NoDeletion \in Deletion /\ NoDeletion.at = "idle"
    BY <1>4, <1>5 DEF NoDeletion, Deletion, Answers
  <1> QED  BY <1>2, <1>3, <1>5, <1>6

-----------------------------------------------------------------------------
(***************************************************************************)
(* Types.                                                                  *)
(***************************************************************************)
LoginTypes    == login \in [Logins -> Login]
AccountTypes  == /\ account \in [People -> Account] /\ given \subseteq Ids
                 /\ tokens \subseteq Ids /\ secret \in 0 .. Rotations /\ spent \subseteq Codes
DataTypes     == /\ store \in [Ids -> Stored] /\ late \in [Deletions -> Stored]
                 /\ thread \in [Threads -> SUBSET (Ids \X Keys)]

\* A deletion under way, and one that has found something, has an owner.
Ongoing == {D \in Deletion : D.at # "idle" \/ D.searched \/ D.page # {} => D.id \in Ids}
DeletionTypes == deletion \in [Deletions -> Ongoing]

LEMMA TypeParts == LoginTypes /\ AccountTypes /\ DataTypes /\ DeletionTypes => TypeOK
  BY DEF TypeOK, LoginTypes, AccountTypes, DataTypes, DeletionTypes, Ongoing

\* An answer is a login at rest.
LEMMA ReplyTypes ==
    ASSUME LoginTypes, NEW l \in Logins, NEW answer \in Answers,
           NEW id \in Ids \cup {NoId}, Reply(l, answer, id)
    PROVE  /\ LoginTypes'
           /\ login'[l].at = "idle" /\ login'[l].answer = answer /\ login'[l].id = id
           /\ \A k \in Logins \ {l} : login'[k] = login[k]
  <1> DEFINE R == [NoLogin EXCEPT !.answer = answer, !.id = id]
  <1>1. R \in Login /\ R.at = "idle" /\ R.answer = answer /\ R.id = id
    BY Nothing DEF Login
  <1>2. login' = [login EXCEPT ![l] = R]
    BY DEF Reply
  <1> HIDE DEF R
  <1> QED  BY <1>1, <1>2 DEF LoginTypes

\* A login that goes on keeps its code.
LEMMA GoesOnTypes ==
    ASSUME LoginTypes, NEW l \in Logins, NEW p \in {"code", "grant", "create", "again"},
           login' = [login EXCEPT ![l].at = p]
    PROVE  /\ LoginTypes'
           /\ login'[l].at = p /\ login'[l].code = login[l].code
           /\ login'[l].crossed = login[l].crossed
           /\ \A k \in Logins \ {l} : login'[k] = login[k]
  <1> DEFINE R == [login[l] EXCEPT !.at = p]
  <1>1. R \in Login /\ R.at = p /\ R.code = login[l].code /\ R.crossed = login[l].crossed
    BY DEF Login, LoginTypes
  <1>2. login' = [login EXCEPT ![l] = R]
    BY DEF LoginTypes, Login
  <1> HIDE DEF R
  <1> QED  BY <1>1, <1>2 DEF LoginTypes

\* Crossed marks the logins of a person and changes nothing else.
LEMMA CrossedTypes ==
    ASSUME LoginTypes, NEW p
    PROVE  /\ Crossed(p) \in [Logins -> Login]
           /\ \A k \in Logins :
                /\ Crossed(p)[k].at = login[k].at /\ Crossed(p)[k].code = login[k].code
                /\ Crossed(p)[k].crossed \/ Crossed(p)[k] = login[k]
                /\ login[k].at # "idle" /\ PersonIn(k) = p => Crossed(p)[k].crossed
  <1> SUFFICES ASSUME NEW k \in Logins
               PROVE  /\ Crossed(p)[k] \in Login
                      /\ Crossed(p)[k].at = login[k].at /\ Crossed(p)[k].code = login[k].code
                      /\ Crossed(p)[k].crossed \/ Crossed(p)[k] = login[k]
                      /\ login[k].at # "idle" /\ PersonIn(k) = p => Crossed(p)[k].crossed
      BY DEF Crossed
  <1> DEFINE R == [login[k] EXCEPT !.crossed = TRUE]
  <1>1. R \in Login /\ R.crossed /\ R.at = login[k].at /\ R.code = login[k].code
    BY DEF Login, LoginTypes
  <1>2. login[k] \in Login
    BY DEF LoginTypes
  <1>3. Crossed(p)[k] = IF login[k].at # "idle" /\ PersonIn(k) = p THEN R ELSE login[k]
    BY DEF Crossed
  <1> HIDE DEF R
  <1> QED  BY <1>1, <1>2, <1>3

\* The person of a login.
LEMMA PersonKnown ==
    ASSUME LoginTypes, NEW l \in Logins
    PROVE  PersonIn(l) \in People
  BY AccountAssumption DEF LoginTypes, Login, PersonIn

-----------------------------------------------------------------------------
(***************************************************************************)
(* Logins.                                                                 *)
(***************************************************************************)
\* What a login that is not crossed knows of the account.
Knows(l) ==
    ~login[l].crossed =>
        /\ login[l].at = "create" => ~Granted(l)
        /\ login[l].at = "again" => Granted(l)

LoginInv == LoginTypes /\ AccountTypes /\ \A l \in Logins : Knows(l)

\* A login is answered as LoginIsSound allows.
Sound(l) ==
    login[l].at # "idle" /\ login'[l].at = "idle" =>
        /\ login'[l].answer = "conflict" =>
              \/ login[l].crossed \/ login'[l].refused
              \/ HasAccount(PersonIn(l)) /\ account[PersonIn(l)].secret # secret
        /\ login'[l].answer = "ok" => login'[l].id = account'[PersonIn(l)].id

\* Nothing happens to login k or to the account of its person.
LEMMA Unconcerned ==
    ASSUME NEW k \in Logins, Knows(k), login'[k] = login[k],
           account'[PersonIn(k)] = account[PersonIn(k)], secret' = secret
    PROVE  Knows(k)' /\ Sound(k)
  BY DEF Knows, Sound, Granted, HasAccount, PersonIn

LEMMA AllUnconcerned ==
    ASSUME LoginInv, UNCHANGED <<login, account, secret>>
    PROVE  \A l \in Logins : Knows(l)' /\ Sound(l)
  BY Unconcerned DEF LoginInv

\* Login l is answered and no account changes.
LEMMA Replied ==
    ASSUME LoginInv, NEW l \in Logins, NEW answer \in Answers,
           NEW id \in Ids \cup {NoId}, Reply(l, answer, id),
           UNCHANGED <<account, secret>>,
           answer = "ok" => id = account[PersonIn(l)].id,
           answer = "conflict" =>
              login[l].crossed \/ (HasAccount(PersonIn(l)) /\ account[PersonIn(l)].secret # secret)
    PROVE  LoginTypes' /\ \A k \in Logins : Knows(k)' /\ Sound(k)
  <1>1. /\ LoginTypes'
        /\ login'[l].at = "idle" /\ login'[l].answer = answer /\ login'[l].id = id
        /\ \A k \in Logins \ {l} : login'[k] = login[k]
    BY ReplyTypes DEF LoginInv
  <1>2. Knows(l)' /\ Sound(l)
    BY <1>1 DEF Knows, Sound
  <1>3. ASSUME NEW k \in Logins \ {l}  PROVE Knows(k)' /\ Sound(k)
    BY <1>1, Unconcerned DEF LoginInv
  <1> QED  BY <1>1, <1>2, <1>3

\* Login l goes on and no account changes.
LEMMA GoesOn ==
    ASSUME LoginInv, NEW l \in Logins, NEW p \in {"grant", "create", "again"},
           login' = [login EXCEPT ![l].at = p], UNCHANGED <<account, secret>>,
           p = "create" => ~Granted(l), p # "again"
    PROVE  LoginTypes' /\ \A k \in Logins : Knows(k)' /\ Sound(k)
  <1>1. /\ LoginTypes'
        /\ login'[l].at = p /\ login'[l].code = login[l].code
        /\ \A k \in Logins \ {l} : login'[k] = login[k]
    BY GoesOnTypes DEF LoginInv
  <1>2. Knows(l)' /\ Sound(l)
    BY <1>1 DEF Knows, Sound, Granted, HasAccount, PersonIn
  <1>3. ASSUME NEW k \in Logins \ {l}  PROVE Knows(k)' /\ Sound(k)
    BY <1>1, Unconcerned DEF LoginInv
  <1> QED  BY <1>1, <1>2, <1>3

\* Every login step keeps the types and what the logins know, and answers
\* soundly.
LoginGoal == LoginTypes' /\ AccountTypes' /\ \A k \in Logins : Knows(k)' /\ Sound(k)

LEMMA StartsGoal ==
    ASSUME LoginInv, NEW l \in Logins, NEW code \in Codes, LoginStarts(l, code)
    PROVE  LoginGoal
  <1> DEFINE R == [NoLogin EXCEPT !.at = "code", !.code = code]
  <1>1. R \in Login /\ R.at = "code"
    BY Nothing DEF Login
  <1>2. login' = [login EXCEPT ![l] = R] /\ login[l].at = "idle"
        /\ UNCHANGED <<account, given, tokens, secret, spent>>
    BY DEF LoginStarts
  <1> HIDE DEF R
  <1>3. LoginTypes' /\ login'[l].at = "code" /\ \A k \in Logins \ {l} : login'[k] = login[k]
    BY <1>1, <1>2 DEF LoginInv, LoginTypes
  <1>4. Knows(l)' /\ Sound(l)
    BY <1>2, <1>3 DEF Knows, Sound
  <1>5. ASSUME NEW k \in Logins \ {l}  PROVE Knows(k)' /\ Sound(k)
    BY <1>2, <1>3, Unconcerned DEF LoginInv
  <1> QED  BY <1>2, <1>3, <1>4, <1>5 DEF LoginGoal, LoginInv, AccountTypes

LEMMA ExchangedGoal ==
    ASSUME LoginInv, NEW l \in Logins, CodeExchanged(l)
    PROVE  LoginGoal
  <1>1. login[l].code \in Codes
    BY DEF LoginInv, LoginTypes, Login
  <1>2. AccountTypes' /\ UNCHANGED <<account, secret>>
    BY <1>1 DEF CodeExchanged, LoginInv, AccountTypes
  <1>3. CASE Reply(l, "error", NoId)
    BY <1>2, <1>3, Replied DEF LoginGoal, Answers
  <1>4. CASE login' = [login EXCEPT ![l].at = "grant"]
    BY <1>2, <1>4, GoesOn DEF LoginGoal
  <1> QED  BY <1>3, <1>4 DEF CodeExchanged

LEMMA GrantGoal ==
    ASSUME LoginInv, NEW l \in Logins, FirstGrant(l) \/ SecondGrant(l)
    PROVE  LoginGoal
  <1>0. PersonIn(l) \in People
    BY PersonKnown DEF LoginInv
  <1>1. account[PersonIn(l)] \in Account
    BY <1>0 DEF LoginInv, AccountTypes
  <1>2. UNCHANGED <<account, given, secret, spent>>
    BY DEF FirstGrant, SecondGrant
  <1>3. CASE Session(l)
    <2> DEFINE id == account[PersonIn(l)].id
    <2>1. id \in Ids
      BY <1>1, <1>3 DEF Session, Granted, HasAccount, Account
    <2>2. AccountTypes'
      BY <1>2, <1>3, <2>1 DEF Session, LoginInv, AccountTypes
    <2>3. Reply(l, "ok", id)
      BY <1>3 DEF Session
    <2> QED  BY <1>2, <2>1, <2>2, <2>3, Replied DEF LoginGoal, Answers
  <1>4. CASE Reply(l, "error", NoId) /\ UNCHANGED tokens
    <2>1. AccountTypes'
      BY <1>2, <1>4 DEF LoginInv, AccountTypes
    <2> QED  BY <1>2, <1>4, <2>1, Replied DEF LoginGoal, Answers
  <1>5. CASE FirstGrant(l) /\ ~Granted(l) /\ UNCHANGED tokens
             /\ login' = [login EXCEPT ![l].at = "create"]
    <2>1. AccountTypes'
      BY <1>2, <1>5 DEF LoginInv, AccountTypes
    <2> QED  BY <1>2, <1>5, <2>1, GoesOn DEF LoginGoal
  <1>6. CASE SecondGrant(l) /\ ~Granted(l) /\ UNCHANGED tokens /\ Reply(l, "conflict", NoId)
    <2>1. AccountTypes'
      BY <1>2, <1>6 DEF LoginInv, AccountTypes
    <2>2. login[l].crossed
      BY <1>6 DEF LoginInv, Knows, SecondGrant
    <2> QED  BY <1>2, <1>6, <2>1, <2>2, Replied DEF LoginGoal, Answers
  <1> QED  BY <1>3, <1>4, <1>5, <1>6 DEF FirstGrant, SecondGrant

LEMMA CreateGoal ==
    ASSUME LoginInv, NEW l \in Logins, Create(l)
    PROVE  LoginGoal
  <1> DEFINE p == PersonIn(l)
  <1>0. p \in People /\ login[l].at = "create" /\ UNCHANGED <<tokens, secret, spent>>
    BY PersonKnown DEF LoginInv, Create
  <1>1. CASE Reply(l, "error", NoId) /\ UNCHANGED <<account, given>>
    <2>1. AccountTypes'
      BY <1>0, <1>1 DEF LoginInv, AccountTypes
    <2> QED  BY <1>0, <1>1, <2>1, Replied DEF LoginGoal, Answers
  <1>2. CASE Reply(l, "conflict", NoId) /\ UNCHANGED <<account, given>> /\ HasAccount(p)
    <2>1. AccountTypes'
      BY <1>0, <1>2 DEF LoginInv, AccountTypes
    <2>2. login[l].crossed \/ account[p].secret # secret
      BY <1>0, <1>2 DEF LoginInv, Knows, Granted
    <2> QED  BY <1>0, <1>2, <2>1, <2>2, Replied DEF LoginGoal, Answers
  <1>3. ASSUME NEW id \in Ids \ given, NEW heard \in BOOLEAN,
               account' = [account EXCEPT ![p] = [id |-> id, secret |-> secret]],
               given' = given \cup {id},
               login' = [Crossed(p) EXCEPT ![l] =
                            IF heard THEN [login[l] EXCEPT !.at = "again"]
                            ELSE [NoLogin EXCEPT !.answer = "error"]]
        PROVE  LoginGoal
    <2> DEFINE R == IF heard THEN [login[l] EXCEPT !.at = "again"]
                    ELSE [NoLogin EXCEPT !.answer = "error"]
               A == [id |-> id, secret |-> secret]
    <2>1. R \in Login /\ (heard => R.at = "again" /\ R.code = login[l].code)
          /\ (~heard => R.at = "idle" /\ R.answer = "error")
      BY Nothing DEF LoginInv, LoginTypes, Login, Answers
    <2>2. A \in Account /\ A.id # NoId /\ A.secret = secret
      BY AccountAssumption DEF Account, LoginInv, AccountTypes
    <2>3. login' = [Crossed(p) EXCEPT ![l] = R] /\ account' = [account EXCEPT ![p] = A]
      BY <1>3
    <2> HIDE DEF R, A
    <2>4. /\ Crossed(p) \in [Logins -> Login]
          /\ \A k \in Logins :
                /\ Crossed(p)[k].at = login[k].at /\ Crossed(p)[k].code = login[k].code
                /\ Crossed(p)[k].crossed \/ Crossed(p)[k] = login[k]
                /\ login[k].at # "idle" /\ PersonIn(k) = p => Crossed(p)[k].crossed
      BY CrossedTypes DEF LoginInv
    <2>5. LoginTypes' /\ login'[l] = R /\ \A k \in Logins \ {l} : login'[k] = Crossed(p)[k]
      BY <2>1, <2>3, <2>4 DEF LoginTypes
    <2>6. account' \in [People -> Account] /\ account'[p] = A
          /\ \A q \in People \ {p} : account'[q] = account[q]
      BY <1>0, <2>2, <2>3 DEF LoginInv, AccountTypes
    <2>7. AccountTypes'
      BY <1>0, <1>3, <2>6 DEF LoginInv, AccountTypes
    <2>8. Knows(l)' /\ Sound(l)
      <3>1. CASE heard
        <4>1. PersonIn(l)' = p
          BY <2>1, <2>5, <3>1 DEF PersonIn
        <4>2. Granted(l)'
          BY <1>0, <2>2, <2>6, <4>1 DEF Granted, HasAccount
        <4> QED  BY <2>1, <2>5, <3>1, <4>2 DEF Knows, Sound
      <3>2. CASE ~heard
        BY <2>1, <2>5, <3>2 DEF Knows, Sound
      <3> QED  BY <3>1, <3>2
    <2>9. ASSUME NEW k \in Logins \ {l}  PROVE Knows(k)' /\ Sound(k)
      <3>1. login'[k].at = login[k].at /\ PersonIn(k) \in People
        BY <2>4, <2>5, PersonKnown DEF LoginInv
      <3>2. CASE login'[k].crossed
        BY <3>1, <3>2 DEF Knows, Sound
      <3>3. CASE ~login'[k].crossed
        <4>1. login'[k] = login[k] /\ (login[k].at = "idle" \/ PersonIn(k) # p)
          BY <2>4, <2>5, <3>3
        <4>2. CASE login[k].at = "idle"
          BY <4>1, <4>2 DEF Knows, Sound
        <4>3. CASE PersonIn(k) # p
          BY <1>0, <2>6, <3>1, <4>1, <4>3, Unconcerned DEF LoginInv
        <4> QED  BY <4>1, <4>2, <4>3
      <3> QED  BY <3>2, <3>3
    <2> QED  BY <2>5, <2>7, <2>8, <2>9 DEF LoginGoal
  <1>4. CASE /\ login' = [login EXCEPT ![l] =
                             [NoLogin EXCEPT !.answer = "conflict", !.refused = TRUE]]
             /\ UNCHANGED <<account, given>>
    <2> DEFINE R == [NoLogin EXCEPT !.answer = "conflict", !.refused = TRUE]
    <2>1. R \in Login /\ R.at = "idle" /\ R.answer = "conflict" /\ R.refused
      BY Nothing DEF Login, Answers
    <2>2. login' = [login EXCEPT ![l] = R]
      BY <1>4
    <2> HIDE DEF R
    <2>3. LoginTypes' /\ login'[l] = R /\ \A k \in Logins \ {l} : login'[k] = login[k]
      BY <2>1, <2>2 DEF LoginInv, LoginTypes
    <2>4. AccountTypes'
      BY <1>0, <1>4 DEF LoginInv, AccountTypes
    <2>5. Knows(l)' /\ Sound(l)
      BY <2>1, <2>3 DEF Knows, Sound
    <2>6. ASSUME NEW k \in Logins \ {l}  PROVE Knows(k)' /\ Sound(k)
      BY <1>0, <1>4, <2>3, Unconcerned DEF LoginInv
    <2> QED  BY <2>3, <2>4, <2>5, <2>6 DEF LoginGoal
  <1> QED  BY <1>1, <1>2, <1>3, <1>4 DEF Create, CreateAccount

LEMMA DeletedGoal ==
    ASSUME LoginInv, NEW d \in Deletions, AccountDeleted(d)
    PROVE  LoginGoal
  <1> DEFINE ps == {p \in People : account[p].id = deletion[d].id}
  <1>0. UNCHANGED <<given, tokens, secret, spent>>
    BY DEF AccountDeleted
  <1>1. CASE UNCHANGED <<account, login>>
    <2>1. LoginTypes' /\ AccountTypes'
      BY <1>0, <1>1 DEF LoginInv, LoginTypes, AccountTypes
    <2> QED  BY <1>0, <1>1, <2>1, AllUnconcerned DEF LoginGoal
  <1>2. CASE /\ account' = [p \in People |-> IF p \in ps THEN [id |-> NoId, secret |-> 0]
                                             ELSE account[p]]
             /\ login' = [l \in Logins |-> IF PersonIn(l) \in ps THEN Crossed(PersonIn(l))[l]
                                           ELSE login[l]]
    <2> DEFINE A == [id |-> NoId, secret |-> 0]
    <2>1. A \in Account
      BY AccountAssumption DEF Account
    <2> HIDE DEF A
    <2>2. account' = [p \in People |-> IF p \in ps THEN A ELSE account[p]]
      BY <1>2 DEF A
    <2> HIDE DEF ps
    <2>3. account' \in [People -> Account] /\ \A q \in People \ ps : account'[q] = account[q]
      BY <2>1, <2>2 DEF LoginInv, AccountTypes
    <2>4. AccountTypes'
      BY <1>0, <2>3 DEF LoginInv, AccountTypes
    <2>5. ASSUME NEW k \in Logins  PROVE login'[k] \in Login /\ Knows(k)' /\ Sound(k)
      <3>1. PersonIn(k) \in People /\ login[k] \in Login
        BY PersonKnown DEF LoginInv, LoginTypes
      <3>2. CASE PersonIn(k) \notin ps
        <4>1. login'[k] = login[k]
          BY <1>2, <3>2
        <4> QED  BY <1>0, <2>3, <3>1, <3>2, <4>1, Unconcerned DEF LoginInv
      <3>3. CASE PersonIn(k) \in ps
        <4> DEFINE p == PersonIn(k)
        <4>1. login'[k] = Crossed(p)[k]
          BY <1>2, <3>3
        <4>2. /\ Crossed(p)[k] \in Login
              /\ Crossed(p)[k].at = login[k].at
              /\ login[k].at # "idle" => Crossed(p)[k].crossed
          BY CrossedTypes DEF LoginInv
        <4> QED  BY <4>1, <4>2 DEF Knows, Sound
      <3> QED  BY <3>2, <3>3
    <2>6. LoginTypes'
      BY <1>2, <2>5 DEF LoginTypes
    <2> QED  BY <2>4, <2>5, <2>6 DEF LoginGoal
  <1> QED  BY <1>1, <1>2 DEF AccountDeleted

LEMMA RestartGoal ==
    ASSUME LoginInv, Restart
    PROVE  LoginGoal
  <1>1. LoginTypes' /\ AccountTypes'
    BY Nothing DEF Restart, LoginInv, LoginTypes, AccountTypes
  <1>2. ASSUME NEW k \in Logins  PROVE Knows(k)' /\ Sound(k)
    <2>1. login'[k].at = "idle" /\ login'[k].answer = "none"
      BY Nothing DEF Restart
    <2> QED  BY <2>1 DEF Knows, Sound
  <1> QED  BY <1>1, <1>2 DEF LoginGoal

\* All the other steps leave logins and accounts alone; tokens come and go.
LEMMA ElsewhereGoal ==
    ASSUME LoginInv, UNCHANGED <<account, given, secret, spent, login>>,
           tokens' \subseteq Ids
    PROVE  LoginGoal
  <1>1. LoginTypes' /\ AccountTypes'
    BY DEF LoginInv, LoginTypes, AccountTypes
  <1> QED  BY <1>1, AllUnconcerned DEF LoginGoal

LEMMA NextGoal ==
    ASSUME LoginInv, [Next]_vars
    PROVE  LoginGoal
  <1>0. tokens \subseteq Ids
    BY DEF LoginInv, AccountTypes
  <1>1. ASSUME NEW l \in Logins, LoginStep(l)
        PROVE  LoginGoal
    BY <1>1, ExchangedGoal, GrantGoal, CreateGoal DEF LoginStep
  <1>2. ASSUME NEW id \in Ids, Refresh(id) \/ Expires(id)
        PROVE  LoginGoal
    BY <1>0, <1>2, ElsewhereGoal DEF Refresh, Expires
  <1>3. ASSUME NEW o \in Ids, NEW k \in Keys,
               \/ \E n \in Swept : Write(o, n, k)
               \/ \E w \in Threads : ThreadReads(w, o, k)
        PROVE  LoginGoal
    BY <1>0, <1>3, ElsewhereGoal DEF Write, ThreadReads
  <1>4. ASSUME NEW w \in Threads, ThreadPuts(w)
        PROVE  LoginGoal
    BY <1>0, <1>4, ElsewhereGoal DEF ThreadPuts
  <1>5. ASSUME NEW d \in Deletions,
               \/ SearchArea(d) \/ DeleteKey(d) \/ NextArea(d) \/ SweepFails(d)
               \/ \E o \in Ids : DeletionStarts(d, o)
        PROVE  LoginGoal
    BY <1>0, <1>5, ElsewhereGoal
       DEF SearchArea, DeleteKey, NextArea, SweepFails, DeletionStarts
  <1>6. CASE UNCHANGED vars
    BY <1>0, <1>6, ElsewhereGoal DEF vars
  <1>7. ASSUME NEW d \in Deletions, AccountDeleted(d)
        PROVE  LoginGoal
    BY <1>7, DeletedGoal
  <1> QED
    BY <1>1, <1>2, <1>3, <1>4, <1>5, <1>6, <1>7, StartsGoal, RestartGoal, Nothing
       DEF Next, DeletionStep

LEMMA LoginInitially == Init => LoginInv
  <1> SUFFICES ASSUME Init  PROVE LoginInv
      OBVIOUS
  <1>1. LoginTypes /\ \A l \in Logins : login[l].at = "idle"
    BY Nothing DEF Init, LoginTypes
  <1>2. [id |-> NoId, secret |-> 0] \in Account /\ 0 \in 0 .. Rotations
    BY AccountAssumption DEF Account
  <1>3. AccountTypes
    BY <1>2 DEF Init, AccountTypes
  <1> QED  BY <1>1, <1>3 DEF LoginInv, Knows

\* Who is turned away with a conflict met another login or deletion of the
\* same person on the way, or an account with another secret; and a session
\* is one of the account the person has.
THEOREM LoginIsSoundHolds == Spec => LoginIsSound
  <1> DEFINE AllSound == \A l \in Logins : Sound(l)
  <1>1. LoginInv /\ [Next]_vars => LoginInv' /\ AllSound
    BY NextGoal DEF LoginGoal, LoginInv
  <1>2. AllSound <=>
        \A l \in Logins : login[l].at # "idle" /\ login'[l].at = "idle" =>
          /\ login'[l].answer = "conflict" =>
                \/ login[l].crossed \/ login'[l].refused
                \/ HasAccount(PersonIn(l)) /\ account[PersonIn(l)].secret # secret
          /\ login'[l].answer = "ok" => login'[l].id = account'[PersonIn(l)].id
    BY DEF Sound
  <1> HIDE DEF AllSound
  <1> QED
    BY <1>1, <1>2, LoginInitially, PTL DEF Spec, LoginIsSound

-----------------------------------------------------------------------------
(***************************************************************************)
(* The types of data and deletions.                                        *)
(***************************************************************************)
LEMMA PutTypes ==
    ASSUME NEW f \in [Ids -> Stored], NEW o \in Ids, NEW n \in Swept, NEW S \in SUBSET Keys
    PROVE  [f EXCEPT ![o][n] = S] \in [Ids -> Stored]
  <1> DEFINE g == [f[o] EXCEPT ![n] = S]
  <1>1. g \in Stored
    BY DEF Stored
  <1>2. [f EXCEPT ![o][n] = S] = [f EXCEPT ![o] = g]
    OBVIOUS
  <1> HIDE DEF g
  <1> QED  BY <1>1, <1>2

LEMMA PutKeeps ==
    ASSUME DataTypes, NEW o \in Ids, NEW n \in Swept, NEW k \in Keys, Put(o, n, k)
    PROVE  store' \in [Ids -> Stored] /\ late' \in [Deletions -> Stored]
  <1>1. store[o][n] \cup {k} \in SUBSET Keys
    BY DEF DataTypes, Stored
  <1>2. store' = [store EXCEPT ![o][n] = store[o][n] \cup {k}]
    BY DEF Put, DataTypes, Stored
  <1>3. store' \in [Ids -> Stored]
    BY <1>1, <1>2, PutTypes DEF DataTypes
  <1>4. ASSUME NEW d \in Deletions  PROVE late'[d] \in Stored
    <2>1. late[d] \in Stored /\ late[d][n] \cup {k} \in SUBSET Keys
      BY DEF DataTypes, Stored
    <2>2. [late[d] EXCEPT ![n] = late[d][n] \cup {k}] \in Stored
      BY <2>1 DEF Stored
    <2> QED  BY <2>1, <2>2 DEF Put
  <1>5. late' \in [Deletions -> Stored]
    BY <1>4 DEF Put
  <1> QED  BY <1>3, <1>5

\* A deletion that is replaced by another record.
LEMMA DeletionReplaced ==
    ASSUME DeletionTypes, NEW d \in Deletions, NEW D \in Ongoing,
           deletion' = [deletion EXCEPT ![d] = D]
    PROVE  DeletionTypes'
  BY DEF DeletionTypes

LEMMA AnswerTypes ==
    ASSUME DataTypes, DeletionTypes, NEW d \in Deletions, NEW answer \in Answers,
           Answer(d, answer), UNCHANGED <<store, thread>>
    PROVE  DataTypes' /\ DeletionTypes'
  <1> DEFINE D == [NoDeletion EXCEPT !.answer = answer]
  <1>1. D \in Ongoing
    BY Nothing DEF Deletion, Ongoing, NoDeletion
  <1>2. deletion' = [deletion EXCEPT ![d] = D]
    BY DEF Answer
  <1> HIDE DEF D
  <1>3. DataTypes'
    BY Nothing DEF Answer, DataTypes
  <1> QED  BY <1>1, <1>2, <1>3, DeletionReplaced

\* The records that a sweep makes of deletion D.
LEMMA SweepTypes ==
    ASSUME NEW D \in Ongoing
    PROVE  /\ \A S \in SUBSET D.page : [D EXCEPT !.page = S] \in Ongoing
           /\ D.id \in Ids =>
                \A S \in SUBSET Keys, M \in Stored :
                    [D EXCEPT !.page = S, !.searched = TRUE, !.met = M] \in Ongoing
           /\ D.area < Len(Areas) => [D EXCEPT !.area = @ + 1, !.searched = FALSE] \in Ongoing
           /\ D.searched =>
                [D EXCEPT !.at = "gotrue", !.area = 1, !.searched = FALSE] \in Ongoing
           /\ \A o \in Ids : [NoDeletion EXCEPT !.at = "sweep", !.id = o] \in Ongoing
  <1>1. NoDeletion \in Deletion /\ DOMAIN Areas = 1 .. Len(Areas) /\ Len(Areas) \in Nat
    BY Nothing
  <1>2. 1 \in DOMAIN Areas
    BY <1>1 DEF NoDeletion, Deletion
  <1>3. D.area < Len(Areas) => D.area + 1 \in DOMAIN Areas
    BY <1>1 DEF Ongoing, Deletion
  <1>4. \A S \in SUBSET D.page : [D EXCEPT !.page = S] \in Ongoing
    BY DEF Ongoing, Deletion
  <1>5. D.id \in Ids =>
          \A S \in SUBSET Keys, M \in Stored :
              [D EXCEPT !.page = S, !.searched = TRUE, !.met = M] \in Ongoing
    BY DEF Ongoing, Deletion
  <1>6. D.area < Len(Areas) => [D EXCEPT !.area = @ + 1, !.searched = FALSE] \in Ongoing
    BY <1>3 DEF Ongoing, Deletion
  <1>7. D.searched => [D EXCEPT !.at = "gotrue", !.area = 1, !.searched = FALSE] \in Ongoing
    BY <1>2 DEF Ongoing, Deletion
  <1>8. \A o \in Ids : [NoDeletion EXCEPT !.at = "sweep", !.id = o] \in Ongoing
    BY <1>1 DEF Ongoing, Deletion
  <1> QED  BY <1>4, <1>5, <1>6, <1>7, <1>8

\* The record of d when the search of its area gave page S.
Searched(d, S) ==
    [deletion[d] EXCEPT !.page = S, !.searched = TRUE,
        !.met = [deletion[d].met EXCEPT ![Area(d)] = store[deletion[d].id][Area(d)]]]

LEMMA SearchedIs ==
    ASSUME DeletionTypes, NEW d \in Deletions, SearchArea(d)
    PROVE  \E S \in SUBSET store[deletion[d].id][Area(d)] :
              /\ Cardinality(S) = PageSize \/ S = store[deletion[d].id][Area(d)]
              /\ deletion' = [deletion EXCEPT ![d] = Searched(d, S)]
  <1> DEFINE D == deletion[d]
             a == Area(d)
             T == store[D.id][a]
  <1>1. D \in Deletion
    BY DEF DeletionTypes, Ongoing
  <1>2. PICK S \in SUBSET T :
            /\ Cardinality(S) = PageSize \/ S = T
            /\ deletion' = [deletion EXCEPT ![d].page = S, ![d].searched = TRUE,
                                           ![d].met[a] = T]
    BY DEF SearchArea
  <1> DEFINE R == [D EXCEPT !.page = S, !.searched = TRUE, !.met[a] = T]
  <1>3. R = Searched(d, S)
    BY <1>1 DEF Searched, Deletion
  <1>4. deletion' = [deletion EXCEPT ![d] = R]
    BY <1>2 DEF DeletionTypes
  <1> HIDE DEF R
  <1> QED  BY <1>2, <1>3, <1>4

DeletionGoal == DataTypes' /\ DeletionTypes'

LEMMA SweepKeeps ==
    ASSUME DataTypes, DeletionTypes, NEW d \in Deletions,
           SearchArea(d) \/ DeleteKey(d) \/ NextArea(d) \/ SweepFails(d)
    PROVE  DeletionGoal
  <1> DEFINE D == deletion[d]
  <1>0. D \in Ongoing
    BY DEF DeletionTypes
  <1>1. D \in Deletion /\ Area(d) \in Swept
    BY <1>0 DEF Ongoing, Deletion, Area, Swept
  <1>2. CASE SearchArea(d)
    <2>1. D.id \in Ids
      BY <1>0, <1>2 DEF SearchArea, Ongoing
    <2>2. store[D.id][Area(d)] \subseteq Keys
      BY <1>1, <2>1 DEF DataTypes, Stored
    <2>3. PICK S \in SUBSET store[D.id][Area(d)] :
              deletion' = [deletion EXCEPT ![d] = Searched(d, S)]
      BY <1>0, <1>2, SearchedIs
    <2>4. [D.met EXCEPT ![Area(d)] = store[D.id][Area(d)]] \in Stored
      BY <1>1, <2>2 DEF Deletion, Stored
    <2>5. Searched(d, S) \in Ongoing
      BY <1>0, <2>1, <2>2, <2>4, SweepTypes DEF Searched
    <2>6. DataTypes'
      BY <1>2 DEF SearchArea, DataTypes
    <2> QED  BY <2>3, <2>5, <2>6, DeletionReplaced DEF DeletionGoal
  <1>3. CASE DeleteKey(d)
    <2>1. PICK k \in D.page :
              /\ deletion' = [deletion EXCEPT ![d].page = @ \ {k}]
              /\ store' = [store EXCEPT ![D.id][Area(d)] = @ \ {k}]
              /\ UNCHANGED <<late, thread>>
      BY <1>3 DEF DeleteKey
    <2>2. D.id \in Ids
      BY <1>0, <2>1 DEF Ongoing
    <2>3. store[D.id][Area(d)] \ {k} \in SUBSET Keys
      BY <1>1, <2>2 DEF DataTypes, Stored
    <2>4. store' = [store EXCEPT ![D.id][Area(d)] = store[D.id][Area(d)] \ {k}]
      BY <1>1, <2>1, <2>2 DEF DataTypes, Stored
    <2>5. DataTypes'
      <3> DEFINE S == store[D.id][Area(d)] \ {k}
      <3>1. [store EXCEPT ![D.id][Area(d)] = S] \in [Ids -> Stored]
        BY <1>1, <2>2, <2>3, PutTypes DEF DataTypes
      <3> QED  BY <2>1, <2>4, <3>1 DEF DataTypes
    <2>6. [D EXCEPT !.page = D.page \ {k}] \in Ongoing
      BY <1>0, SweepTypes
    <2>7. deletion' = [deletion EXCEPT ![d] = [D EXCEPT !.page = D.page \ {k}]]
      BY <1>1, <2>1 DEF DeletionTypes, Deletion
    <2> QED  BY <2>5, <2>6, <2>7, DeletionReplaced DEF DeletionGoal
  <1>4. CASE NextArea(d)
    <2>1. D.searched
      BY <1>4 DEF NextArea
    <2>2. DataTypes'
      BY <1>4 DEF NextArea, DataTypes
    <2>3. CASE MoreAreas(d)
      <3>1. [D EXCEPT !.area = @ + 1, !.searched = FALSE] \in Ongoing
        BY <1>0, <2>3, SweepTypes DEF MoreAreas
      <3>2. deletion' = [deletion EXCEPT ![d] = [D EXCEPT !.area = @ + 1, !.searched = FALSE]]
        BY <1>4, <2>3 DEF NextArea
      <3> QED  BY <2>2, <3>1, <3>2, DeletionReplaced DEF DeletionGoal
    <2>4. CASE ~MoreAreas(d)
      <3>1. [D EXCEPT !.at = "gotrue", !.area = 1, !.searched = FALSE] \in Ongoing
        BY <1>0, <2>1, SweepTypes
      <3>2. deletion' = [deletion EXCEPT ![d] =
                            [D EXCEPT !.at = "gotrue", !.area = 1, !.searched = FALSE]]
        BY <1>4, <2>4 DEF NextArea, DeletionTypes
      <3> QED  BY <2>2, <3>1, <3>2, DeletionReplaced DEF DeletionGoal
    <2> QED  BY <2>3, <2>4
  <1>5. CASE SweepFails(d)
    BY <1>5, AnswerTypes DEF SweepFails, DeletionGoal, Answers
  <1> QED  BY <1>2, <1>3, <1>4, <1>5

LEMMA DeletedKeeps ==
    ASSUME DataTypes, DeletionTypes, NEW d \in Deletions, AccountDeleted(d)
    PROVE  DeletionGoal
  <1>1. PICK answer \in {"ok", "error"} : Answer(d, answer)
    BY DEF AccountDeleted
  <1>2. UNCHANGED <<store, thread>>
    BY DEF AccountDeleted
  <1> QED  BY <1>1, <1>2, AnswerTypes DEF DeletionGoal, Answers

LEMMA StartsKeeps ==
    ASSUME DataTypes, DeletionTypes, NEW d \in Deletions, NEW o \in Ids, DeletionStarts(d, o)
    PROVE  DeletionGoal
  <1> DEFINE D == [NoDeletion EXCEPT !.at = "sweep", !.id = o]
  <1>1. D \in Ongoing
    <2>1. deletion[d] \in Ongoing
      BY DEF DeletionTypes
    <2> QED  BY <2>1, SweepTypes
  <1>2. deletion' = [deletion EXCEPT ![d] = D]
    BY DEF DeletionStarts
  <1> HIDE DEF D
  <1>5. DataTypes'
    BY DEF DeletionStarts, DataTypes
  <1> QED  BY <1>1, <1>2, <1>5, DeletionReplaced DEF DeletionGoal

\* The writers put keys of the areas.
LEMMA WritersKeep ==
    ASSUME DataTypes, DeletionTypes,
           \/ \E o \in Ids, n \in Swept, k \in Keys : Write(o, n, k)
           \/ \E w \in Threads, o \in Ids, k \in Keys : ThreadReads(w, o, k)
           \/ \E w \in Threads : ThreadPuts(w)
    PROVE  DeletionGoal
  <1>1. DeletionTypes'
    BY DEF DeletionTypes, Write, ThreadReads, ThreadPuts
  <1>2. ASSUME NEW o \in Ids, NEW n \in Swept, NEW k \in Keys, Write(o, n, k)
        PROVE  DataTypes'
    <2>1. store' \in [Ids -> Stored] /\ late' \in [Deletions -> Stored]
      BY <1>2, PutKeeps DEF Write
    <2> QED  BY <1>2, <2>1 DEF Write, DataTypes
  <1>3. ASSUME NEW w \in Threads, NEW o \in Ids, NEW k \in Keys, ThreadReads(w, o, k)
        PROVE  DataTypes'
    <2>1. {<<o, k>>} \in SUBSET (Ids \X Keys)
      OBVIOUS
    <2>2. thread' = [thread EXCEPT ![w] = {<<o, k>>}] /\ UNCHANGED <<store, late>>
      BY <1>3 DEF ThreadReads
    <2> QED  BY <2>1, <2>2 DEF DataTypes
  <1>4. ASSUME NEW w \in Threads, ThreadPuts(w)
        PROVE  DataTypes'
    <2>1. PICK ok \in thread[w] :
              Put(ok[1], Tasks, ok[2]) /\ thread' = [thread EXCEPT ![w] = {}]
      BY <1>4 DEF ThreadPuts
    <2>2. ok[1] \in Ids /\ ok[2] \in Keys /\ Tasks \in Swept
      BY Nothing DEF DataTypes
    <2>3. store' \in [Ids -> Stored] /\ late' \in [Deletions -> Stored]
      BY <2>1, <2>2, PutKeeps
    <2> QED  BY <2>1, <2>3 DEF DataTypes
  <1> QED  BY <1>1, <1>2, <1>3, <1>4 DEF DeletionGoal

LEMMA OthersKeep ==
    ASSUME DataTypes, DeletionTypes, UNCHANGED <<store, late, thread, deletion>>
    PROVE  DeletionGoal
  BY DEF DataTypes, DeletionTypes, DeletionGoal

LEMMA RestartKeeps ==
    ASSUME DataTypes, DeletionTypes, Restart
    PROVE  DeletionGoal
  <1>1. NoDeletion \in Ongoing
    BY Nothing DEF Ongoing, NoDeletion
  <1> QED  BY <1>1, Nothing DEF Restart, DataTypes, DeletionTypes, DeletionGoal

-----------------------------------------------------------------------------
(***************************************************************************)
(* What a deletion leaves.                                                 *)
(***************************************************************************)
\* What is in area n of the deleted account and was there when d began.
Left(d, n) == store[deletion[d].id][n] \ late[d][n]

\* S is no more of what was met than a page does not show.
Within(S, M) == S \subseteq M /\ M \subseteq Keys /\ Cardinality(S) <= BeyondPage(M)

\* All that d leaves in area n.
IsSwept(d, n) == Within(Left(d, n), deletion[d].met[n])

SweepInv(d) ==
    /\ deletion[d].at # "idle" => deletion[d].answer = "none"
    /\ deletion[d].searched => deletion[d].at = "sweep"
    /\ deletion[d].at = "sweep" =>
          /\ \A i \in DOMAIN Areas : i < deletion[d].area => IsSwept(d, Areas[i])
          /\ deletion[d].searched =>
                Within(Left(d, Area(d)) \ deletion[d].page, deletion[d].met[Area(d)])
    /\ deletion[d].at = "gotrue" => \A n \in Swept : IsSwept(d, n)

LEMMA BeyondFacts ==
    ASSUME NEW M \in SUBSET Keys
    PROVE  /\ IsFiniteSet(M) /\ Cardinality(M) \in Nat /\ PageSize \in Nat
           /\ BeyondPage(M) \in Nat /\ Cardinality(M) - PageSize <= BeyondPage(M)
  <1> DEFINE c == Cardinality(M)
  <1>1. IsFiniteSet(M) /\ c \in Nat /\ PageSize \in Nat
    BY AccountAssumption, FS_Subset, FS_CardinalityType
  <1>2. BeyondPage(M) = IF c > PageSize THEN c - PageSize ELSE 0
    BY DEF BeyondPage
  <1> HIDE DEF c
  <1>3. BeyondPage(M) \in Nat /\ c - PageSize <= BeyondPage(M)
    BY <1>1, <1>2
  <1> QED  BY <1>1, <1>3 DEF c

LEMMA WithinSmaller ==
    ASSUME NEW S, NEW M, Within(S, M), NEW R, R \subseteq S
    PROVE  Within(R, M)
  <1>1. IsFiniteSet(S) /\ BeyondPage(M) \in Nat
    BY BeyondFacts, FS_Subset DEF Within
  <1>2. IsFiniteSet(R) /\ Cardinality(R) <= Cardinality(S)
    BY <1>1, FS_Subset
  <1>3. Cardinality(R) \in Nat /\ Cardinality(S) \in Nat
    BY <1>1, <1>2, FS_CardinalityType
  <1> QED  BY <1>1, <1>2, <1>3 DEF Within

\* One search of T leaves no more than one page too few.
LEMMA PageLeaves ==
    ASSUME NEW T \in SUBSET Keys, NEW S \in SUBSET T,
           Cardinality(S) = PageSize \/ S = T
    PROVE  Within(T \ S, T)
  <1>0. IsFiniteSet(T) /\ PageSize \in Nat /\ Cardinality(T) \in Nat
        /\ BeyondPage(T) \in Nat /\ Cardinality(T) - PageSize <= BeyondPage(T)
    BY BeyondFacts
  <1>1. CASE S = T
    <2>1. T \ S = {} /\ Cardinality({}) = 0
      BY <1>1, FS_EmptySet
    <2>2. Cardinality(T \ S) <= BeyondPage(T)
      BY <1>0, <2>1
    <2> QED  BY <2>2 DEF Within
  <1>2. CASE Cardinality(S) = PageSize
    <2>1. Cardinality(T \ S) = Cardinality(T) - Cardinality(T \cap S)
      BY <1>0, FS_Difference
    <2>2. T \cap S = S
      OBVIOUS
    <2>3. Cardinality(T \ S) <= BeyondPage(T)
      BY <1>0, <1>2, <2>1, <2>2
    <2> QED  BY <2>3 DEF Within
  <1> QED  BY <1>1, <1>2

\* A deletion that the step does not concern, and of whose account nothing
\* comes back that was there before.
LEMMA SweepUnconcerned ==
    ASSUME NEW d, SweepInv(d), deletion'[d] = deletion[d], deletion[d].area \in DOMAIN Areas,
           deletion[d].at # "idle" => \A n \in Swept : Left(d, n)' \subseteq Left(d, n)
    PROVE  SweepInv(d)'
  <1>1. \A i \in DOMAIN Areas : Areas[i] \in Swept
    BY DEF Swept
  <1>2. ASSUME deletion[d].at # "idle", NEW n \in Swept, IsSwept(d, n)
        PROVE  IsSwept(d, n)'
    <2>1. Within(Left(d, n)', deletion[d].met[n])
      BY <1>2, WithinSmaller DEF IsSwept
    <2> QED  BY <2>1 DEF IsSwept, Within, BeyondPage
  <1>3. ASSUME deletion[d].at = "sweep",
               Within(Left(d, Area(d)) \ deletion[d].page, deletion[d].met[Area(d)])
        PROVE  Within((Left(d, Area(d)) \ deletion[d].page)', deletion[d].met[Area(d)])
    <2>1. Area(d)' = Area(d) /\ Area(d) \in Swept
      BY <1>1, <1>3 DEF Area
    <2>2. Left(d, Area(d))' = Left(d, Areas[deletion[d].area])'
      BY <2>1 DEF Left, Area
    <2> QED  BY <1>3, <2>1, <2>2, WithinSmaller DEF Area
  <1>4. deletion[d].at = "sweep" /\ deletion[d].searched =>
          Within((Left(d, Area(d)) \ deletion[d].page)', deletion[d].met[Area(d)])
    BY <1>3 DEF SweepInv
  <1>5. deletion[d].at = "sweep" =>
          \A i \in DOMAIN Areas : i < deletion[d].area => IsSwept(d, Areas[i])'
    BY <1>1, <1>2 DEF SweepInv
  <1>6. deletion[d].at = "gotrue" => \A n \in Swept : IsSwept(d, n)'
    BY <1>2 DEF SweepInv
  <1>7. Area(d)' = Area(d)
    BY DEF Area
  <1> QED  BY <1>4, <1>5, <1>6, <1>7 DEF SweepInv, Within, BeyondPage

\* All that is known of the deletions.
DeletionInv == DataTypes /\ DeletionTypes /\ \A d \in Deletions : SweepInv(d)

\* What a completed deletion owes (DeletionLeavesNothing).
Clean(d) ==
    Done(d) =>
        LET o == deletion[d].id IN
        /\ ServiceRole => \A p \in People : account'[p].id # o
        /\ \A n \in Swept :
              LET left == store[o][n] \ late[d][n]
                  met  == deletion[d].met[n]
              IN  left \subseteq met /\ Cardinality(left) <= BeyondPage(met)

\* Only AccountDeleted reports that all is done.
LEMMA NotDone ==
    ASSUME NEW d, SweepInv(d), deletion'[d].answer \in {"none", "error"}
    PROVE  Clean(d)
  BY DEF Clean, Done

\* A deletion that the step leaves alone.
LEMMA DeletionUnconcerned ==
    ASSUME DeletionInv, NEW d \in Deletions, deletion'[d] = deletion[d],
           deletion[d].at # "idle" => \A n \in Swept : Left(d, n)' \subseteq Left(d, n)
    PROVE  SweepInv(d)' /\ Clean(d)
  <1>1. deletion[d].area \in DOMAIN Areas /\ SweepInv(d)
    BY DEF DeletionInv, DeletionTypes, Ongoing, Deletion
  <1>2. SweepInv(d)'
    BY <1>1, SweepUnconcerned
  <1>3. deletion[d].at = "gotrue" => deletion'[d].answer = "none"
    BY <1>1 DEF SweepInv
  <1> QED  BY <1>2, <1>3 DEF Clean, Done

\* A deletion of which neither the data nor the record change.
LEMMA DeletionStill ==
    ASSUME DeletionInv, NEW d \in Deletions, deletion'[d] = deletion[d],
           store' = store, late'[d] = late[d]
    PROVE  SweepInv(d)' /\ Clean(d)
  BY DeletionUnconcerned DEF Left

\* A writer puts a key: it is new to every deletion of that account.
LEMMA PutUnconcerned ==
    ASSUME DeletionInv, NEW o \in Ids, NEW m \in Swept, NEW k \in Keys, Put(o, m, k),
           UNCHANGED deletion, NEW d \in Deletions
    PROVE  SweepInv(d)' /\ Clean(d)
  <1>1. ASSUME deletion[d].at # "idle", NEW n \in Swept
        PROVE  Left(d, n)' \subseteq Left(d, n)
    <2> DEFINE id == deletion[d].id
    <2>1. id \in Ids
      BY <1>1 DEF DeletionInv, DeletionTypes, Ongoing
    <2>2. store[o] \in Stored /\ late[d] \in Stored
      BY DEF DeletionInv, DataTypes
    <2>3. store' = [store EXCEPT ![o] = [store[o] EXCEPT ![m] = store[o][m] \cup {k}]]
      BY DEF Put, DeletionInv, DataTypes, Stored
    <2>4. CASE id # o
      <3>1. store'[id] = store[id] /\ late'[d] = late[d]
        BY <2>1, <2>3, <2>4 DEF DeletionInv, DataTypes, Put
      <3> QED  BY <3>1 DEF Left
    <2>5. CASE id = o
      <3>1. late'[d] = [late[d] EXCEPT ![m] = late[d][m] \cup {k}]
        BY <1>1, <2>5 DEF Put
      <3>2. store'[id] = [store[o] EXCEPT ![m] = store[o][m] \cup {k}]
        BY <2>1, <2>3, <2>5 DEF DeletionInv, DataTypes
      <3>3. store'[id][n] \ late'[d][n] \subseteq store[id][n] \ late[d][n]
        <4>1. CASE n = m
          <5>1. store'[id][n] = store[id][n] \cup {k} /\ late'[d][n] = late[d][n] \cup {k}
            BY <2>2, <2>5, <3>1, <3>2, <4>1 DEF Stored
          <5> QED  BY <5>1
        <4>2. CASE n # m
          <5>1. store'[id][n] = store[id][n] /\ late'[d][n] = late[d][n]
            BY <2>2, <2>5, <3>1, <3>2, <4>2 DEF Stored
          <5> QED  BY <5>1
        <4> QED  BY <4>1, <4>2
      <3> QED  BY <3>3 DEF Left
    <2> QED  BY <2>4, <2>5
  <1> QED  BY <1>1, DeletionUnconcerned

SweepGoal == \A d \in Deletions : SweepInv(d)' /\ Clean(d)

\* The search of an area: what is not on the page stays.
LEMMA SearchGoal ==
    ASSUME DeletionInv, NEW d \in Deletions, SearchArea(d)
    PROVE  SweepGoal
  <1> DEFINE D == deletion[d]
             a == Area(d)
             T == store[D.id][a]
  <1>1. D \in Ongoing /\ D \in Deletion /\ D.met \in Stored /\ D.at = "sweep" /\ SweepInv(d)
    BY DEF DeletionInv, DeletionTypes, Ongoing, Deletion, SearchArea
  <1>2. D.id \in Ids /\ a \in Swept
    BY <1>1 DEF Ongoing, Deletion, Area, Swept
  <1>3. T \in SUBSET Keys
    BY <1>2 DEF DeletionInv, DataTypes, Stored
  <1>4. PICK S \in SUBSET T :
            /\ Cardinality(S) = PageSize \/ S = T
            /\ deletion' = [deletion EXCEPT ![d] = Searched(d, S)]
    BY SearchedIs DEF DeletionInv
  <1>5. store' = store /\ late' = late
    BY DEF SearchArea
  <1>6. /\ deletion'[d].page = S /\ deletion'[d].searched
        /\ deletion'[d].at = D.at /\ deletion'[d].id = D.id
        /\ deletion'[d].area = D.area /\ deletion'[d].answer = D.answer
        /\ deletion'[d].met = [D.met EXCEPT ![a] = T]
        /\ \A e \in Deletions \ {d} : deletion'[e] = deletion[e]
    <2>1. deletion'[d] = Searched(d, S)
          /\ \A e \in Deletions \ {d} : deletion'[e] = deletion[e]
      BY <1>4 DEF DeletionInv, DeletionTypes
    <2> QED  BY <1>1, <2>1 DEF Searched, Deletion
  <1>7. deletion'[d].met[a] = T /\ \A n \in Swept \ {a} : deletion'[d].met[n] = D.met[n]
    BY <1>1, <1>2, <1>6 DEF Stored
  <1>8. \A n : Left(d, n)' = Left(d, n)
    BY <1>5, <1>6 DEF Left
  <1>9. Area(d)' = a
    BY <1>6 DEF Area
  <1>10. Within(T \ S, T) /\ Left(d, a) \ S \subseteq T \ S
    BY <1>3, <1>4, PageLeaves DEF Left
  <1>11. Within(Left(d, a) \ S, T)
    BY <1>10, WithinSmaller
  <1>12. (Left(d, Area(d)) \ deletion[d].page)' = Left(d, a) \ S
    BY <1>5, <1>6, <1>9 DEF Left
  <1>13. ASSUME NEW i \in DOMAIN Areas, i < D.area
         PROVE  IsSwept(d, Areas[i])'
    <2>1. Areas[i] \in Swept /\ Areas[i] # a
      <3>1. D.area \in DOMAIN Areas /\ i # D.area
        BY <1>1, <1>13, Nothing DEF Deletion
      <3> QED  BY <3>1, AccountAssumption DEF Swept, Area
    <2>2. IsSwept(d, Areas[i])
      BY <1>1, <1>13 DEF SweepInv
    <2> QED  BY <1>7, <1>8, <2>1, <2>2 DEF IsSwept, Within, BeyondPage
  <1>14. Within((Left(d, Area(d)) \ deletion[d].page)', deletion'[d].met[a])
    BY <1>7, <1>11, <1>12
  <1>15. SweepInv(d)'
    BY <1>1, <1>6, <1>9, <1>13, <1>14 DEF SweepInv, Within, BeyondPage
  <1>16. Clean(d)
    BY <1>1 DEF Clean, Done
  <1> QED  BY <1>5, <1>6, <1>15, <1>16, DeletionStill DEF SweepGoal

\* A key of the page is deleted.
LEMMA DeleteGoal ==
    ASSUME DeletionInv, NEW d \in Deletions, DeleteKey(d)
    PROVE  SweepGoal
  <1> DEFINE D == deletion[d]
             a == Area(d)
  <1>0. PICK k \in D.page :
            /\ deletion' = [deletion EXCEPT ![d].page = @ \ {k}]
            /\ store' = [store EXCEPT ![D.id][a] = @ \ {k}]
            /\ late' = late
    BY DEF DeleteKey
  <1>1. D \in Ongoing /\ D \in Deletion /\ SweepInv(d)
    BY DEF DeletionInv, DeletionTypes, Ongoing
  <1>2. D.id \in Ids /\ a \in Swept
    BY <1>0, <1>1 DEF Ongoing, Deletion, Area, Swept
  <1>3. \A o \in Ids, n \in Swept :
            store'[o][n] = IF o = D.id /\ n = a THEN store[o][n] \ {k} ELSE store[o][n]
    <2> DEFINE g == [store[D.id] EXCEPT ![a] = store[D.id][a] \ {k}]
    <2>1. store' = [store EXCEPT ![D.id] = g]
      BY <1>0, <1>2 DEF DeletionInv, DataTypes, Stored
    <2>2. store[D.id] \in Stored
      BY <1>2 DEF DeletionInv, DataTypes
    <2>3. \A n \in Swept : g[n] = IF n = a THEN store[D.id][a] \ {k} ELSE store[D.id][n]
      BY <2>2 DEF Stored
    <2> HIDE DEF g
    <2>4. \A o \in Ids : store'[o] = IF o = D.id THEN g ELSE store[o]
      BY <1>2, <2>1 DEF DeletionInv, DataTypes
    <2> QED  BY <2>3, <2>4
  <1>4. /\ deletion'[d].page = D.page \ {k} /\ deletion'[d].searched = D.searched
        /\ deletion'[d].at = D.at /\ deletion'[d].id = D.id
        /\ deletion'[d].area = D.area /\ deletion'[d].answer = D.answer
        /\ deletion'[d].met = D.met
        /\ \A e \in Deletions \ {d} : deletion'[e] = deletion[e]
    BY <1>0, <1>1 DEF DeletionInv, DeletionTypes, Deletion
  <1>5. ASSUME NEW n \in Swept
        PROVE  /\ Left(d, n)' \subseteq Left(d, n)
               /\ n = a => Left(d, n)' \subseteq Left(d, n) \ {k}
    BY <1>0, <1>2, <1>3, <1>4 DEF Left
  <1>6. \A i \in DOMAIN Areas : Areas[i] \in Swept
    BY DEF Swept
  <1>7. ASSUME NEW n \in Swept, IsSwept(d, n)  PROVE IsSwept(d, n)'
    <2>1. Within(Left(d, n)', D.met[n])
      BY <1>5, <1>7, WithinSmaller DEF IsSwept
    <2> QED  BY <1>4, <2>1 DEF IsSwept, Within, BeyondPage
  <1>8. ASSUME Within(Left(d, a) \ D.page, D.met[a])
        PROVE  Within((Left(d, Area(d)) \ deletion[d].page)', D.met[a])
    <2>1. Area(d)' = a
      BY <1>4 DEF Area
    <2>2. Left(d, Area(d))' \subseteq Left(d, a) \ {k}
      <3>1. store'[D.id][a] = store[D.id][a] \ {k}
        BY <1>2, <1>3
      <3> QED  BY <1>0, <1>4, <2>1, <3>1 DEF Left
    <2>3. (Left(d, Area(d)) \ deletion[d].page)' \subseteq Left(d, a) \ D.page
      BY <1>4, <2>2
    <2> QED  BY <1>8, <2>3, WithinSmaller
  <1>9. SweepInv(d)'
    <2>1. \A i \in DOMAIN Areas : i < D.area /\ D.at = "sweep" => IsSwept(d, Areas[i])'
      BY <1>1, <1>6, <1>7 DEF SweepInv
    <2>2. D.at = "sweep" /\ D.searched =>
             Within((Left(d, Area(d)) \ deletion[d].page)', D.met[a])
      BY <1>1, <1>8 DEF SweepInv
    <2>3. D.at = "gotrue" => \A n \in Swept : IsSwept(d, n)'
      BY <1>1, <1>7 DEF SweepInv
    <2>4. Area(d)' = a
      BY <1>4 DEF Area
    <2> QED  BY <1>1, <1>4, <2>1, <2>2, <2>3, <2>4 DEF SweepInv, Within, BeyondPage
  <1>10. Clean(d)
    BY <1>1, <1>4 DEF SweepInv, Clean, Done
  <1>11. ASSUME NEW e \in Deletions \ {d}  PROVE SweepInv(e)' /\ Clean(e)
    <2>1. ASSUME deletion[e].at # "idle", NEW n \in Swept
          PROVE  Left(e, n)' \subseteq Left(e, n)
      <3>1. deletion[e].id \in Ids
        BY <2>1 DEF DeletionInv, DeletionTypes, Ongoing
      <3> QED  BY <1>0, <1>3, <1>4, <3>1 DEF Left
    <2> QED  BY <1>4, <2>1, DeletionUnconcerned
  <1> QED  BY <1>9, <1>10, <1>11 DEF SweepGoal

\* The page is empty: the area is done.
LEMMA NextAreaGoal ==
    ASSUME DeletionInv, NEW d \in Deletions, NextArea(d)
    PROVE  SweepGoal
  <1> DEFINE D == deletion[d]
  <1>0. Len(Areas) \in Nat /\ DOMAIN Areas = 1 .. Len(Areas)
    BY Nothing
  <1>1. D \in Deletion /\ SweepInv(d) /\ D.searched /\ D.page = {}
        /\ store' = store /\ late' = late
    BY DEF DeletionInv, DeletionTypes, Ongoing, NextArea
  <1>2. D.at = "sweep" /\ D.answer = "none" /\ Within(Left(d, Area(d)) \ {}, D.met[Area(d)])
    BY <1>1 DEF SweepInv
  <1>3. IsSwept(d, Areas[D.area])
    <2>1. Left(d, Area(d)) \ {} = Left(d, Areas[D.area])
      BY DEF Area
    <2> QED  BY <1>2, <2>1 DEF Area, IsSwept
  <1>4. \A i \in DOMAIN Areas : i <= D.area => IsSwept(d, Areas[i])
    BY <1>0, <1>1, <1>2, <1>3 DEF SweepInv, Deletion
  <1>5. CASE MoreAreas(d)
    <2>1. deletion' = [deletion EXCEPT ![d] = [D EXCEPT !.area = D.area + 1, !.searched = FALSE]]
      BY <1>5 DEF NextArea
    <2>2. /\ deletion'[d].at = "sweep" /\ ~deletion'[d].searched
          /\ deletion'[d].answer = "none" /\ deletion'[d].id = D.id
          /\ deletion'[d].area = D.area + 1 /\ deletion'[d].met = D.met
          /\ \A e \in Deletions \ {d} : deletion'[e] = deletion[e]
      BY <1>1, <1>2, <2>1 DEF DeletionInv, DeletionTypes, Deletion
    <2>3. \A n : IsSwept(d, n) => IsSwept(d, n)'
      BY <1>1, <2>2 DEF IsSwept, Left, Within, BeyondPage
    <2>4. \A i \in DOMAIN Areas : i < deletion'[d].area => i <= D.area
      BY <1>0, <1>1, <2>2 DEF Deletion
    <2>5. SweepInv(d)' /\ Clean(d)
      BY <1>2, <1>4, <2>2, <2>3, <2>4 DEF SweepInv, Clean, Done
    <2> QED  BY <1>1, <2>2, <2>5, DeletionStill DEF SweepGoal
  <1>6. CASE ~MoreAreas(d)
    <2>1. deletion' = [deletion EXCEPT ![d] =
                          [D EXCEPT !.at = "gotrue", !.area = 1, !.searched = FALSE]]
      BY <1>6 DEF NextArea
    <2>2. /\ deletion'[d].at = "gotrue" /\ ~deletion'[d].searched
          /\ deletion'[d].answer = "none" /\ deletion'[d].id = D.id
          /\ deletion'[d].met = D.met
          /\ \A e \in Deletions \ {d} : deletion'[e] = deletion[e]
      BY <1>1, <1>2, <2>1 DEF DeletionInv, DeletionTypes, Deletion
    <2>3. \A n : IsSwept(d, n) => IsSwept(d, n)'
      BY <1>1, <2>2 DEF IsSwept, Left, Within, BeyondPage
    <2>4. \A i \in DOMAIN Areas : i <= D.area
      BY <1>0, <1>1, <1>6 DEF Deletion, MoreAreas
    <2>5. \A n \in Swept : IsSwept(d, n)
      BY <1>4, <2>4 DEF Swept
    <2>6. SweepInv(d)' /\ Clean(d)
      BY <1>2, <2>2, <2>3, <2>5 DEF SweepInv, Clean, Done
    <2> QED  BY <1>1, <2>2, <2>6, DeletionStill DEF SweepGoal
  <1> QED  BY <1>5, <1>6

\* A deletion is answered.
LEMMA AnswerLeaves ==
    ASSUME DeletionInv, NEW d \in Deletions, NEW answer \in Answers, Answer(d, answer),
           store' = store
    PROVE  /\ SweepInv(d)' /\ deletion'[d].answer = answer
           /\ \A e \in Deletions \ {d} : SweepInv(e)' /\ Clean(e)
  <1> DEFINE D == [NoDeletion EXCEPT !.answer = answer]
  <1>1. D.at = "idle" /\ ~D.searched /\ D.answer = answer
    BY DEF NoDeletion
  <1>2. deletion' = [deletion EXCEPT ![d] = D] /\ late' = [late EXCEPT ![d] = NotStored]
    BY DEF Answer
  <1> HIDE DEF D
  <1>3. deletion'[d] = D
        /\ \A e \in Deletions \ {d} : deletion'[e] = deletion[e] /\ late'[e] = late[e]
    BY <1>2 DEF DeletionInv, DeletionTypes, DataTypes
  <1>4. SweepInv(d)'
    BY <1>1, <1>3 DEF SweepInv
  <1> QED  BY <1>1, <1>3, <1>4, DeletionStill

LEMMA SweepFailsGoal ==
    ASSUME DeletionInv, NEW d \in Deletions, SweepFails(d)
    PROVE  SweepGoal
  <1>1. Answer(d, "error") /\ store' = store /\ SweepInv(d)
    BY DEF SweepFails, DeletionInv
  <1>2. Clean(d)
    BY DEF SweepFails, Clean, Done
  <1> QED  BY <1>1, <1>2, AnswerLeaves DEF SweepGoal, Answers

\* GoTrue is asked; only where the account is gone, or could not be deleted,
\* the answer is that all is done.
LEMMA AccountDeletedGoal ==
    ASSUME DeletionInv, NEW d \in Deletions, AccountDeleted(d)
    PROVE  SweepGoal
  <1> DEFINE o == deletion[d].id
  <1>1. PICK answer \in {"ok", "error"} : Answer(d, answer)
    BY DEF AccountDeleted
  <1>2. store' = store /\ SweepInv(d) /\ deletion[d].at = "gotrue" /\ o \in Ids
    BY DEF AccountDeleted, DeletionInv, DeletionTypes, Ongoing
  <1>3. /\ SweepInv(d)' /\ deletion'[d].answer = answer
        /\ \A e \in Deletions \ {d} : SweepInv(e)' /\ Clean(e)
    BY <1>1, <1>2, AnswerLeaves DEF Answers
  <1>4. ASSUME answer = "ok", ServiceRole, NEW p \in People
        PROVE  account'[p].id # o
    <2>1. ~Answer(d, "error")
      <3>1. SUFFICES ASSUME Answer(d, "error")  PROVE FALSE
        OBVIOUS
      <3>2. deletion'[d].answer = "error"
        BY <1>2, <3>1, AnswerLeaves DEF Answers
      <3> QED  BY <1>3, <1>4, <3>2
    <2>2. account' = [q \in People |->
                        IF q \in {r \in People : account[r].id = o}
                        THEN [id |-> NoId, secret |-> 0] ELSE account[q]]
      BY <1>4, <2>1 DEF AccountDeleted
    <2>3. o # NoId
      BY <1>2, AccountAssumption
    <2> QED  BY <2>2, <2>3
  <1>5. ASSUME NEW n \in Swept
        PROVE  /\ store[o][n] \ late[d][n] \subseteq deletion[d].met[n]
               /\ Cardinality(store[o][n] \ late[d][n]) <= BeyondPage(deletion[d].met[n])
    BY <1>2 DEF SweepInv, IsSwept, Within, Left
  <1>6. Clean(d)
    BY <1>3, <1>4, <1>5 DEF Clean, Done
  <1> QED  BY <1>3, <1>6 DEF SweepGoal

LEMMA DeletionStartsGoal ==
    ASSUME DeletionInv, NEW d \in Deletions, NEW o \in Ids, DeletionStarts(d, o)
    PROVE  SweepGoal
  <1> DEFINE D == [NoDeletion EXCEPT !.at = "sweep", !.id = o]
  <1>0. Len(Areas) \in Nat /\ DOMAIN Areas = 1 .. Len(Areas)
    BY Nothing
  <1>1. D.at = "sweep" /\ ~D.searched /\ D.answer = "none" /\ D.area = 1
    BY DEF NoDeletion
  <1>2. deletion' = [deletion EXCEPT ![d] = D] /\ store' = store /\ late' = late
        /\ deletion[d].at = "idle"
    BY DEF DeletionStarts
  <1> HIDE DEF D
  <1>3. deletion'[d] = D /\ \A e \in Deletions \ {d} : deletion'[e] = deletion[e]
    BY <1>2 DEF DeletionInv, DeletionTypes
  <1>4. \A i \in DOMAIN Areas : ~(i < 1)
    BY <1>0
  <1>5. SweepInv(d)' /\ Clean(d)
    BY <1>1, <1>2, <1>3, <1>4 DEF SweepInv, Clean, Done
  <1> QED  BY <1>2, <1>3, <1>5, DeletionStill DEF SweepGoal

LEMMA DeletionNext ==
    ASSUME DeletionInv, [Next]_vars
    PROVE  DeletionGoal /\ SweepGoal
  <1>0. DataTypes /\ DeletionTypes
    BY DEF DeletionInv
  <1>1. ASSUME UNCHANGED <<store, late, thread, deletion>>
        PROVE  DeletionGoal /\ SweepGoal
    BY <1>0, <1>1, OthersKeep, DeletionStill DEF SweepGoal
  <1>2. ASSUME NEW l \in Logins,
               \/ CodeExchanged(l) \/ FirstGrant(l) \/ Create(l) \/ SecondGrant(l)
               \/ \E code \in Codes : LoginStarts(l, code)
        PROVE  DeletionGoal /\ SweepGoal
    BY <1>1, <1>2 DEF CodeExchanged, FirstGrant, Create, SecondGrant, LoginStarts
  <1>3. ASSUME NEW id \in Ids, Refresh(id) \/ Expires(id)
        PROVE  DeletionGoal /\ SweepGoal
    BY <1>1, <1>3 DEF Refresh, Expires
  <1>4. CASE UNCHANGED vars
    <2>1. UNCHANGED <<store, late, thread, deletion>>
      BY <1>4 DEF vars
    <2> QED  BY <1>1, <2>1
  <1>5. ASSUME NEW d \in Deletions, DeletionStep(d) \/ \E o \in Ids : DeletionStarts(d, o)
        PROVE  DeletionGoal /\ SweepGoal
    <2>1. DeletionGoal
      BY <1>0, <1>5, SweepKeeps, DeletedKeeps, StartsKeeps DEF DeletionStep
    <2>2. SweepGoal
      BY <1>5, SearchGoal, DeleteGoal, NextAreaGoal, SweepFailsGoal, AccountDeletedGoal,
         DeletionStartsGoal DEF DeletionStep
    <2> QED  BY <2>1, <2>2
  <1>6. ASSUME NEW o \in Ids, NEW k \in Keys, NEW n \in Swept, Write(o, n, k)
        PROVE  DeletionGoal /\ SweepGoal
    <2>1. DeletionGoal
      BY <1>0, <1>6, WritersKeep
    <2>2. Put(o, n, k) /\ UNCHANGED deletion
      BY <1>6 DEF Write
    <2> QED  BY <2>1, <2>2, PutUnconcerned DEF SweepGoal
  <1>7. ASSUME NEW w \in Threads, NEW o \in Ids, NEW k \in Keys, ThreadReads(w, o, k)
        PROVE  DeletionGoal /\ SweepGoal
    <2>1. DeletionGoal
      BY <1>0, <1>7, WritersKeep
    <2>2. UNCHANGED <<store, late, deletion>>
      BY <1>7 DEF ThreadReads
    <2> QED  BY <2>1, <2>2, DeletionStill DEF SweepGoal
  <1>8. ASSUME NEW w \in Threads, ThreadPuts(w)
        PROVE  DeletionGoal /\ SweepGoal
    <2>1. DeletionGoal
      BY <1>0, <1>8, WritersKeep
    <2>2. PICK ok \in thread[w] : Put(ok[1], Tasks, ok[2]) /\ UNCHANGED deletion
      BY <1>8 DEF ThreadPuts
    <2>3. ok[1] \in Ids /\ ok[2] \in Keys /\ Tasks \in Swept
      BY <1>0, Nothing DEF DataTypes
    <2> QED  BY <2>1, <2>2, <2>3, PutUnconcerned DEF SweepGoal
  <1>9. CASE Restart
    <2>1. DeletionGoal
      BY <1>0, <1>9, RestartKeeps
    <2>2. ~NoDeletion.searched /\ NoDeletion.at = "idle" /\ NoDeletion.answer = "none"
      BY DEF NoDeletion
    <2>3. \A d \in Deletions : deletion'[d] = NoDeletion
      BY <1>9 DEF Restart
    <2>4. SweepGoal
      BY <2>2, <2>3 DEF SweepGoal, SweepInv, Clean, Done
    <2> QED  BY <2>1, <2>4
  <1> QED
    BY <1>2, <1>3, <1>4, <1>5, <1>6, <1>7, <1>8, <1>9, Nothing DEF Next, LoginStep

LEMMA DeletionInitially == Init => DeletionInv
  <1> SUFFICES ASSUME Init  PROVE DeletionInv
      OBVIOUS
  <1>1. NoDeletion \in Ongoing /\ NotStored \in Stored
    BY Nothing DEF Ongoing, NoDeletion
  <1>2. DataTypes /\ DeletionTypes
    BY <1>1 DEF Init, DataTypes, DeletionTypes
  <1>3. ~NoDeletion.searched /\ NoDeletion.at = "idle"
    BY DEF NoDeletion
  <1>4. ASSUME NEW d \in Deletions  PROVE SweepInv(d)
    <2>1. deletion[d] = NoDeletion
      BY DEF Init
    <2> QED  BY <1>3, <2>1 DEF SweepInv
  <1> QED  BY <1>2, <1>4 DEF DeletionInv

\* A deletion that is reported as done, whatever was written meanwhile, and
\* however many deletions of the account overlap, has left nothing of what was
\* there before but what one page of a search could not show.
THEOREM DeletionLeavesNothingHolds == Spec => DeletionLeavesNothing
  <1> DEFINE AllClean == \A d \in Deletions : Clean(d)
  <1>1. DeletionInv /\ [Next]_vars => DeletionInv' /\ AllClean
    BY DeletionNext DEF DeletionGoal, SweepGoal, DeletionInv
  <1>2. AllClean <=>
        \A d \in Deletions : Done(d) =>
          LET o == deletion[d].id IN
          /\ ServiceRole => \A p \in People : account'[p].id # o
          /\ \A n \in Swept :
                LET left == store[o][n] \ late[d][n]
                    met  == deletion[d].met[n]
                IN  left \subseteq met /\ Cardinality(left) <= BeyondPage(met)
    BY DEF Clean
  <1> HIDE DEF AllClean
  <1> QED
    BY <1>1, <1>2, DeletionInitially, PTL DEF Spec, DeletionLeavesNothing

\* Every variable has its type, for any number of requests at any point of
\* their way.
THEOREM TypeCorrect == Spec => []TypeOK
  <1> DEFINE Inv == LoginInv /\ DeletionInv
  <1>1. Init => Inv
    BY LoginInitially, DeletionInitially
  <1>2. Inv /\ [Next]_vars => Inv'
    BY NextGoal, DeletionNext DEF LoginGoal, LoginInv, DeletionGoal, SweepGoal, DeletionInv
  <1>3. Inv => TypeOK
    BY TypeParts DEF LoginInv, DeletionInv
  <1> QED  BY <1>1, <1>2, <1>3, PTL DEF Spec
=============================================================================
