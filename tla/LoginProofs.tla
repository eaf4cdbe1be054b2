----------------------------- MODULE LoginProofs ----------------------------
(***************************************************************************)
(* Proofs about the login endpoint: the mutex around the JavaScript machine *)
(* keeps the hook's answers apart, for every number of logins at the same  *)
(* time and every hook.                                                    *)
(***************************************************************************)
EXTENDS Login, TLAPS

Counters == {"idle", "lock", "run", "call", "result", "send", "store", "done"}
Statuses == {"none", "200", "202", "403", "500"}
UserOrNone == User \cup {NoUser}

Logins == [pc : Counters, user : UserOrNone, answer : Answers, status : Statuses]

\* Each variable has its type, and a login under way is somebody's.
LoginTypes ==
    /\ vm \in UserOrNone
    /\ login \in [Client -> Logins]
    /\ issued \in [Token -> [user : UserOrNone, apps : SUBSET App]]
    /\ \A c \in Client : login[c].pc \notin {"idle", "done"} => login[c].user \in User

\* The holder of the lock is alone in the machine: the call that began last there
\* is its own.
MachineInv ==
    \A c \in Client :
        /\ login[c].pc \in {"run", "call"} => jsVMLock = c
        /\ At(c, "call") => vm = login[c].user

\* A login that has been through the hook goes on with the answer for its own
\* user, and goes to the provider only with an object.
AnswerInv ==
    \A c \in Client :
        /\ At(c, "result") => login[c].answer = HookOf[login[c].user]
        /\ WithHook /\ login[c].pc \in {"send", "store"} =>
              /\ login[c].answer = HookOf[login[c].user]
              /\ login[c].answer.kind = "object"

LoginInv == LoginTypes /\ MachineInv /\ AnswerInv /\ RestrictedAsHooked

\* The answers are of three kinds and name sets of applications.
LEMMA AnswerKinds ==
    \A a \in Answers : a.kind \in {"falsy", "value", "object"} /\ a.apps \in SUBSET App
BY DEF Answers

\* The login before it begins is well typed.
LEMMA IdleType ==
    /\ Idle \in Logins /\ Idle.pc = "idle"
    /\ NotIssued \in [user : UserOrNone, apps : SUBSET App] /\ NotIssued.user = NoUser
<1>1. Unasked \in Answers
  BY DEF Unasked, Answers
<1>2. Idle \in Logins /\ Idle.pc = "idle"
  <2> HIDE DEF Unasked, Answers
  <2> QED BY <1>1 DEF Idle, Logins, Counters, Statuses, UserOrNone
<1> QED BY <1>2 DEF NotIssued, UserOrNone

\* The login of c becomes l, and all the others stay as they are.
Becomes(c, l) ==
    /\ login' \in [Client -> Logins]
    /\ login'[c] = l
    /\ \A d \in Client : d # c => login'[d] = login[d]

\* What Goto and Reply do to a login.
LEMMA Moves ==
    ASSUME LoginTypes, NEW c \in Client
    PROVE  /\ \A pc \in Counters : Goto(c, pc) => Becomes(c, [login[c] EXCEPT !.pc = pc])
           /\ \A s \in Statuses : Reply(c, s) =>
                Becomes(c, [login[c] EXCEPT !.pc = "done", !.status = s])
<1>1. login \in [Client -> Logins] /\ login[c] \in Logins
  BY DEF LoginTypes
<1>2. ASSUME NEW pc \in Counters, Goto(c, pc)
      PROVE  Becomes(c, [login[c] EXCEPT !.pc = pc])
  <2>1. [login[c] EXCEPT !.pc = pc] \in Logins
    BY <1>1 DEF Logins
  <2> QED BY <1>1, <1>2, <2>1 DEF Goto, Becomes
<1>3. ASSUME NEW s \in Statuses, Reply(c, s)
      PROVE  Becomes(c, [login[c] EXCEPT !.pc = "done", !.status = s])
  <2>1. "done" \in Counters
    BY DEF Counters
  <2>2. [login[c] EXCEPT !.pc = "done", !.status = s] \in Logins
    BY <1>1, <2>1 DEF Logins
  <2> QED BY <1>1, <1>3, <2>2 DEF Reply, Becomes
<1> QED BY <1>2, <1>3

\* A login that ends, one that begins and one that goes on outside the machine leave
\* the others and what has been issued alone.
LEMMA MoveStep ==
    ASSUME LoginInv, NEW c \in Client, NEW l \in Logins, Becomes(c, l), vm' = vm, issued' = issued,
           jsVMLock' = jsVMLock \/ (jsVMLock = c /\ jsVMLock' = NoClient),
           l.pc \notin {"run", "call"},
           l.pc \notin {"idle", "done"} => l.user \in User,
           l.pc = "result" => l.answer = HookOf[l.user],
           WithHook /\ l.pc \in {"send", "store"} =>
              l.answer = HookOf[l.user] /\ l.answer.kind = "object"
    PROVE  LoginInv'
<1> USE DEF LoginInv
<1>1. LoginTypes'
  BY DEF LoginTypes, Becomes
<1>2. MachineInv'
  BY DEF MachineInv, At, Becomes
<1>3. AnswerInv'
  BY DEF AnswerInv, At, Becomes
<1>4. RestrictedAsHooked'
  BY DEF RestrictedAsHooked
<1> QED BY <1>1, <1>2, <1>3, <1>4

\* Every way out with a reply, whether or not the lock is released on it.
LEMMA ReplyStep ==
    ASSUME LoginInv, NEW c \in Client, NEW s \in Statuses, Reply(c, s), vm' = vm, issued' = issued,
           jsVMLock' = jsVMLock \/ (jsVMLock = c /\ jsVMLock' = NoClient)
    PROVE  LoginInv'
<1> DEFINE l == [login[c] EXCEPT !.pc = "done", !.status = s]
<1>1. Becomes(c, l)
  BY Moves DEF LoginInv
<1>2. l \in Logins /\ l.pc = "done"
  BY <1>1 DEF LoginInv, LoginTypes, Logins, Becomes
<1> HIDE DEF l
<1> QED BY <1>1, <1>2, MoveStep

\* A login moves from one step after the hook to the next.
LEMMA GotoStep ==
    ASSUME LoginInv, NEW c \in Client, NEW pc \in {"send", "store"}, Goto(c, pc),
           UNCHANGED <<jsVMLock, vm, issued>>,
           login[c].pc \notin {"idle", "done"},
           WithHook => login[c].answer = HookOf[login[c].user] /\ login[c].answer.kind = "object"
    PROVE  LoginInv'
<1> DEFINE l == [login[c] EXCEPT !.pc = pc]
<1>1. Becomes(c, l)
  BY Moves DEF LoginInv, Counters
<1>2. /\ l \in Logins /\ l.pc = pc
      /\ l.user = login[c].user /\ l.answer = login[c].answer /\ l.user \in User
  BY <1>1 DEF LoginInv, LoginTypes, Logins, Becomes
<1> HIDE DEF l
<1> QED BY <1>1, <1>2, MoveStep

\* A login enters the machine only when nobody is in it.
LEMMA LockStep == ASSUME LoginInv, NEW c \in Client, Lock(c) PROVE LoginInv'
<1> DEFINE l == [login[c] EXCEPT !.pc = "run"]
<1>1. /\ At(c, "lock") /\ jsVMLock = NoClient /\ jsVMLock' = c /\ vm' = vm /\ issued' = issued
      /\ Becomes(c, l)
  BY Moves DEF LoginInv, Lock, Counters
<1>2. l \in Logins /\ l.pc = "run" /\ l.user \in User
  BY <1>1 DEF LoginInv, LoginTypes, Logins, Becomes, At
<1> HIDE DEF l
<1> USE DEF LoginInv
<1>3. LoginTypes'
  BY <1>1, <1>2 DEF LoginTypes, Becomes
<1>4. MachineInv'
  BY <1>1, <1>2, ConstantsAssumption DEF MachineInv, At, Becomes
<1>5. AnswerInv'
  BY <1>1, <1>2 DEF AnswerInv, At, Becomes
<1>6. RestrictedAsHooked'
  BY <1>1 DEF RestrictedAsHooked
<1> QED BY <1>3, <1>4, <1>5, <1>6

\* The call that begins in the machine is that of the holder of the lock.
LEMMA RunStep == ASSUME LoginInv, NEW c \in Client, Run(c) PROVE LoginInv'
<1> DEFINE l == [login[c] EXCEPT !.pc = "call"]
<1>1. /\ At(c, "run") /\ jsVMLock' = jsVMLock /\ vm' = login[c].user /\ issued' = issued
      /\ Becomes(c, l)
  BY Moves DEF LoginInv, Run, Counters
<1>2. l \in Logins /\ l.pc = "call" /\ l.user \in User /\ l.user = login[c].user
  BY <1>1 DEF LoginInv, LoginTypes, Logins, Becomes, At
<1> HIDE DEF l
<1> USE DEF LoginInv
<1>3. LoginTypes'
  BY <1>1, <1>2 DEF LoginTypes, Becomes, UserOrNone
<1>4. MachineInv'
  <2>1. \A d \in Client : d # c => login[d].pc \notin {"run", "call"}
    BY <1>1 DEF MachineInv, At
  <2> QED BY <1>1, <1>2, <2>1 DEF MachineInv, At, Becomes
<1>5. AnswerInv'
  BY <1>1, <1>2 DEF AnswerInv, At, Becomes
<1>6. RestrictedAsHooked'
  BY <1>1 DEF RestrictedAsHooked
<1> QED BY <1>3, <1>4, <1>5, <1>6

\* The answer that a login takes along is the one for its own user.
LEMMA CallStep == ASSUME LoginInv, NEW c \in Client, Call(c) PROVE LoginInv'
<1> DEFINE a == HookOf[login[c].user]
           l == [login[c] EXCEPT !.pc = "result", !.answer = a]
<1>1. /\ At(c, "call") /\ jsVMLock = c /\ vm = login[c].user /\ login[c].user \in User
      /\ jsVMLock' = NoClient /\ vm' = vm /\ issued' = issued
  BY DEF LoginInv, Call, MachineInv, LoginTypes, At
<1>2. a \in Answers /\ "result" \in Counters
  BY <1>1, ConstantsAssumption DEF Counters
<1>3. login' = [login EXCEPT ![c].pc = "result", ![c].answer = a]
  BY <1>1 DEF Call
<1> HIDE DEF a
<1>4. login \in [Client -> Logins] /\ login[c] \in Logins
  BY DEF LoginInv, LoginTypes
<1>5. l \in Logins /\ l.pc = "result" /\ l.answer = a /\ l.user = login[c].user
  BY <1>2, <1>4 DEF Logins
<1>6. Becomes(c, l)
  BY <1>3, <1>4, <1>5 DEF Becomes
<1> HIDE DEF l
<1> QED BY <1>1, <1>5, <1>6, MoveStep DEF a

\* What is issued is what the hook answered for the user it is issued to.
LEMMA IssueStep == ASSUME LoginInv, NEW c \in Client, NEW t \in Token, Issue(c, t) PROVE LoginInv'
<1> DEFINE i == [user |-> login[c].user, apps |-> AllowedApplications(c)]
           l == [login[c] EXCEPT !.pc = "done", !.status = "200"]
<1>1. /\ At(c, "store") /\ issued' = [issued EXCEPT ![t] = i]
      /\ jsVMLock' = jsVMLock /\ vm' = vm /\ Becomes(c, l)
  BY Moves DEF LoginInv, Issue, Statuses
<1>2. l \in Logins /\ l.pc = "done"
  BY <1>1 DEF LoginInv, LoginTypes, Logins, Becomes
<1>3. /\ login[c].user \in User /\ login[c].answer \in Answers
      /\ WithHook => login[c].answer = HookOf[login[c].user] /\ login[c].answer.kind = "object"
  BY <1>1 DEF LoginInv, LoginTypes, Logins, AnswerInv, At
<1>4. /\ i \in [user : UserOrNone, apps : SUBSET App]
      /\ WithHook => HookOf[i.user].kind = "object" /\ i.apps = HookOf[i.user].apps
  BY <1>3, AnswerKinds DEF AllowedApplications, UserOrNone
<1> HIDE DEF l, i
<1> USE DEF LoginInv
<1>5. LoginTypes'
  BY <1>1, <1>2, <1>4 DEF LoginTypes, Becomes
<1>6. MachineInv'
  BY <1>1, <1>2 DEF MachineInv, At, Becomes
<1>7. AnswerInv'
  BY <1>1, <1>2 DEF AnswerInv, At, Becomes
<1>8. RestrictedAsHooked'
  BY <1>1, <1>4 DEF RestrictedAsHooked, LoginTypes
<1> QED BY <1>5, <1>6, <1>7, <1>8

\* Every step of every login keeps the invariant.
LEMMA LoginStep == LoginInv /\ [Next]_vars => LoginInv'
<1> SUFFICES ASSUME LoginInv, [Next]_vars PROVE LoginInv'
  OBVIOUS
<1>0. "500" \in Statuses /\ "403" \in Statuses /\ "202" \in Statuses
  BY DEF Statuses
<1>1. ASSUME NEW c \in Client, NEW u \in User, Post(c, u) PROVE LoginInv'
  <2> DEFINE pc == IF WithHook THEN "lock" ELSE "send"
             l == [Idle EXCEPT !.pc = pc, !.user = u]
  <2>1. /\ login' = [login EXCEPT ![c] = l]
        /\ jsVMLock' = jsVMLock /\ vm' = vm /\ issued' = issued
    BY <1>1 DEF Post
  <2>2. pc \in Counters /\ u \in UserOrNone /\ pc \in {"lock", "send"} /\ (WithHook => pc = "lock")
    BY DEF Counters, UserOrNone
  <2> HIDE DEF pc
  <2>3. l \in Logins /\ l.pc = pc /\ l.user = u
    BY <2>2, IdleType DEF Logins
  <2> HIDE DEF l
  <2>4. Becomes(c, l)
    BY <2>1, <2>3 DEF Becomes, LoginInv, LoginTypes
  <2> QED BY <2>1, <2>2, <2>3, <2>4, MoveStep
<1>2. ASSUME NEW c \in Client, PostError(c) PROVE LoginInv'
  <2> DEFINE l == [Idle EXCEPT !.pc = "done", !.status = "500"]
  <2>1. /\ login' = [login EXCEPT ![c] = l]
        /\ jsVMLock' = jsVMLock /\ vm' = vm /\ issued' = issued
    BY <1>2 DEF PostError
  <2>2. "done" \in Counters
    BY DEF Counters
  <2>3. l \in Logins /\ l.pc = "done"
    BY <1>0, <2>2, IdleType DEF Logins
  <2> HIDE DEF l
  <2>4. Becomes(c, l)
    BY <2>1, <2>3 DEF Becomes, LoginInv, LoginTypes
  <2> QED BY <2>1, <2>3, <2>4, MoveStep
<1>3. ASSUME NEW c \in Client, InHook(c) PROVE LoginInv'
  <2>1. CASE RunError(c) \/ CallError(c)
    <3>1. /\ Reply(c, "500") /\ vm' = vm /\ issued' = issued
          /\ jsVMLock = c /\ jsVMLock' = NoClient
      BY <2>1 DEF RunError, CallError, LoginInv, MachineInv, At
    <3> QED BY <1>0, <3>1, ReplyStep
  <2> QED BY <1>3, <2>1, RunStep, CallStep DEF InHook
<1>4. ASSUME NEW c \in Client, Provider(c) PROVE LoginInv'
  <2>1. CASE ProviderAccepts(c)
    <3>1. /\ Goto(c, "store") /\ UNCHANGED <<jsVMLock, vm, issued>>
          /\ login[c].pc \notin {"idle", "done"}
          /\ WithHook => login[c].answer = HookOf[login[c].user] /\ login[c].answer.kind = "object"
      BY <2>1 DEF ProviderAccepts, LoginInv, AnswerInv, At
    <3> QED BY <3>1, GotoStep
  <2>2. CASE ProviderRefuses(c) \/ ProviderIncomplete(c) \/ ProviderError(c)
    BY <1>0, <2>2, ReplyStep DEF ProviderRefuses, ProviderIncomplete, ProviderError
  <2> QED BY <1>4, <2>1, <2>2 DEF Provider
<1>5. ASSUME NEW c \in Client, Afterwards(c) PROVE LoginInv'
  <2>1. CASE Result(c)
    <3>1. /\ At(c, "result") /\ UNCHANGED <<jsVMLock, vm, issued>>
          /\ login[c].answer = HookOf[login[c].user]
          /\ login[c].answer.kind \in {"falsy", "value", "object"}
      BY <2>1, AnswerKinds DEF Result, LoginInv, LoginTypes, Logins, AnswerInv, At
    <3>2. CASE login[c].answer.kind = "falsy"
      BY <1>0, <2>1, <3>1, <3>2, ReplyStep DEF Result
    <3>3. CASE login[c].answer.kind = "value"
      BY <1>0, <2>1, <3>1, <3>3, ReplyStep DEF Result
    <3>4. CASE login[c].answer.kind = "object"
      BY <2>1, <3>1, <3>4, GotoStep DEF Result, At
    <3> QED BY <3>1, <3>2, <3>3, <3>4
  <2>2. CASE ResultError(c) \/ AddTokenError(c)
    BY <1>0, <2>2, ReplyStep DEF ResultError, AddTokenError
  <2> QED BY <1>5, <2>1, <2>2, IssueStep DEF Afterwards
<1>6. CASE UNCHANGED vars
  BY <1>6 DEF vars, LoginInv, LoginTypes, MachineInv, AnswerInv, RestrictedAsHooked, At
<1> QED BY <1>1, <1>2, <1>3, <1>4, <1>5, <1>6, LockStep DEF Next

\* The invariant holds when nobody has logged in yet.
LEMMA LoginAlways == Spec => []LoginInv
<1>1. Init => LoginInv
  BY IdleType DEF Init, LoginInv, LoginTypes, MachineInv, AnswerInv, RestrictedAsHooked, At,
     UserOrNone
<1> QED BY <1>1, LoginStep, PTL DEF Spec

\* Whatever logins run at the same time, a token has the restrictions that the hook
\* gave for its own user, and a user whom the hook turned down has none.
THEOREM Restricted == Spec => []RestrictedAsHooked
<1>1. LoginInv => RestrictedAsHooked
  BY DEF LoginInv
<1> QED BY <1>1, LoginAlways, PTL
=============================================================================
