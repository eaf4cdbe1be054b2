-------------------------------- MODULE Login -------------------------------
(***************************************************************************)
(* The login endpoint: the POST handler of RegisterRoutes (auth/rest.go)   *)
(* and AuthenticationHandler.Authenticate (auth/handler.go), which asks an *)
(* optional JavaScript hook what to send to the provider and which         *)
(* applications the token may be used for, and then asks the provider.     *)
(*                                                                         *)
(* All logins share one JavaScript machine, guarded by jsVMLock.  Running  *)
(* the script sets the global "exports"; a call uses the machine's own     *)
(* state, here the arguments of the call that began last.  The hook's      *)
(* answer to a user is a constant of the model: it is computed from the    *)
(* arguments alone, in an object of its own.                               *)
(***************************************************************************)
EXTENDS Naturals, FiniteSets

CONSTANTS
    Client,    \* request goroutines
    NoClient,  \* nobody holds the lock
    User,      \* users who log in
    NoUser,    \* no call is in the machine
    WithHook,  \* provider.hooks.pre_authentication is set
    HookOf,    \* HookOf[u]: the hook's answer for user u
    App,       \* application names
    Token      \* access tokens

\* An answer is falsy, or no object, or an object whose allowedApplications are
\* undefined, a list that exports as []string, or anything else.
Answers ==
    [kind : {"falsy", "value"}, list : {"undefined"}, apps : {{}}]
    \cup [kind : {"object"}, list : {"undefined", "other"}, apps : {{}}]
    \cup [kind : {"object"}, list : {"strings"}, apps : SUBSET App \ {{}}]

ASSUME ConstantsAssumption ==
    /\ NoClient \notin Client /\ NoUser \notin User
    /\ WithHook \in BOOLEAN
    /\ HookOf \in [User -> Answers]

VARIABLES
    jsVMLock,  \* the holder of the mutex, or NoClient
    vm,        \* the user whose call began last in the machine
    login,     \* login[c]: where the login of c is
    issued     \* issued[t]: whom token t was issued to, and for which applications

vars == <<jsVMLock, vm, login, issued>>

Unasked == [kind |-> "value", list |-> "undefined", apps |-> {}]
Idle == [pc |-> "idle", user |-> NoUser, answer |-> Unasked, status |-> "none"]
NotIssued == [user |-> NoUser, apps |-> {}]

Init ==
    /\ jsVMLock = NoClient
    /\ vm = NoUser
    /\ login = [c \in Client |-> Idle]
    /\ issued = [t \in Token |-> NotIssued]

At(c, pc) == login[c].pc = pc
Goto(c, pc) == login' = [login EXCEPT ![c].pc = pc]
Reply(c, status) == login' = [login EXCEPT ![c].pc = "done", ![c].status = status]

\* The body of the request is read and parsed, twice.
Post(c, u) ==
    /\ login[c].pc \in {"idle", "done"}
    /\ login' = [login EXCEPT ![c] = [Idle EXCEPT !.pc = IF WithHook THEN "lock" ELSE "send",
                                                  !.user = u]]
    /\ UNCHANGED <<jsVMLock, vm, issued>>

PostError(c) ==
    /\ login[c].pc \in {"idle", "done"}
    /\ login' = [login EXCEPT ![c] = [Idle EXCEPT !.pc = "done", !.status = "500"]]
    /\ UNCHANGED <<jsVMLock, vm, issued>>

(***************************************************************************)
(* The hook.                                                               *)
(***************************************************************************)

\* Mutant: the lock is not taken.
LockSkipped(c) ==
    /\ At(c, "lock")
    /\ Goto(c, "run")
    /\ UNCHANGED <<jsVMLock, vm, issued>>

Lock(c) ==
    /\ At(c, "lock") /\ jsVMLock = NoClient
    /\ jsVMLock' = c
    /\ Goto(c, "run")
    /\ UNCHANGED <<vm, issued>>

\* The script runs and exports a function, which is called.
Run(c) ==
    /\ At(c, "run")
    /\ vm' = login[c].user
    /\ Goto(c, "call")
    /\ UNCHANGED <<jsVMLock, issued>>

\* Mutant: the lock is kept on the way out.
RunErrorLocked(c) ==
    /\ At(c, "run")
    /\ Reply(c, "500")
    /\ UNCHANGED <<jsVMLock, vm, issued>>

\* The script fails, or exports something else.
RunError(c) ==
    /\ At(c, "run")
    /\ jsVMLock' = NoClient
    /\ Reply(c, "500")
    /\ UNCHANGED <<vm, issued>>

\* The call ends and the lock is released; the result is looked at afterwards.
Call(c) ==
    /\ At(c, "call") /\ vm \in User
    /\ jsVMLock' = NoClient
    /\ login' = [login EXCEPT ![c].pc = "result", ![c].answer = HookOf[vm]]
    /\ UNCHANGED <<vm, issued>>

CallError(c) ==
    /\ At(c, "call")
    /\ jsVMLock' = NoClient
    /\ Reply(c, "500")
    /\ UNCHANGED <<vm, issued>>

Result(c) ==
    /\ At(c, "result")
    /\ CASE login[c].answer.kind = "falsy" -> Reply(c, "403")
         [] login[c].answer.kind = "value" -> Reply(c, "500")
         [] OTHER -> Goto(c, "send")
    /\ UNCHANGED <<jsVMLock, vm, issued>>

\* A getter of the result throws, or the request cannot be put together.
ResultError(c) ==
    /\ login[c].pc \in {"result", "send"}
    /\ Reply(c, "500")
    /\ UNCHANGED <<jsVMLock, vm, issued>>

(***************************************************************************)
(* The provider and the token store.                                       *)
(***************************************************************************)

\* The provider answers 200 with a JWT, 403, 202 with a JSON object, or fails in
\* one of many ways (no answer, another status, 202 with something else).
ProviderAccepts(c) == At(c, "send") /\ Goto(c, "store") /\ UNCHANGED <<jsVMLock, vm, issued>>
ProviderRefuses(c) == At(c, "send") /\ Reply(c, "403") /\ UNCHANGED <<jsVMLock, vm, issued>>
ProviderIncomplete(c) == At(c, "send") /\ Reply(c, "202") /\ UNCHANGED <<jsVMLock, vm, issued>>
ProviderError(c) == At(c, "send") /\ Reply(c, "500") /\ UNCHANGED <<jsVMLock, vm, issued>>

\* response.AllowedApplications: no list means every application.
AllowedApplications(c) == IF WithHook THEN login[c].answer.apps ELSE {}

\* AddToken succeeds with a fresh token, which goes to the client.
Issue(c, t) ==
    /\ At(c, "store") /\ issued[t] = NotIssued
    /\ issued' = [issued EXCEPT ![t] = [user |-> login[c].user,
                                        apps |-> AllowedApplications(c)]]
    /\ Reply(c, "200")
    /\ UNCHANGED <<jsVMLock, vm>>

AddTokenError(c) ==
    /\ At(c, "store")
    /\ Reply(c, "500")
    /\ UNCHANGED <<jsVMLock, vm, issued>>

InHook(c) == Run(c) \/ RunError(c) \/ Call(c) \/ CallError(c)
Provider(c) ==
    ProviderAccepts(c) \/ ProviderRefuses(c) \/ ProviderIncomplete(c) \/ ProviderError(c)
Afterwards(c) ==
    Result(c) \/ ResultError(c) \/ AddTokenError(c) \/ \E t \in Token : Issue(c, t)

Next ==
    \E c \in Client :
        \/ \E u \in User : Post(c, u)
        \/ PostError(c) \/ Lock(c) \/ InHook(c) \/ Provider(c) \/ Afterwards(c)

Spec == Init /\ [][Next]_vars

\* Goroutines keep running and sync.Mutex starves nobody.  A hook may loop, the
\* provider may not answer, and AddToken may not return, as it verifies the JWT
\* with a key that is fetched without a timeout: nothing bounds any of them.
FairSpec ==
    /\ Spec
    /\ \A c \in Client :
          /\ SF_vars(Lock(c))
          /\ WF_vars(Result(c))

(***************************************************************************)
(* Properties.                                                             *)
(***************************************************************************)

\* A token is restricted to what the hook answered for the very user it is issued
\* to, however many logins use the machine at the same time, and nobody the hook
\* turned down gets one.
RestrictedAsHooked ==
    \A t \in Token :
        LET u == issued[t].user
        IN (u # NoUser /\ WithHook)
           => HookOf[u].kind = "object" /\ issued[t].apps = HookOf[u].apps

\* Every login is answered, unless a hook, the provider or the token store (which
\* may have to fetch the key) never returns: no way out of the hook keeps the lock.
LoginAnswered ==
    \A c \in Client :
        \/ login[c].pc \notin {"idle", "done"} ~> login[c].pc \in {"idle", "done"}
        \/ <>[](\E d \in Client : login[d].pc \in {"run", "call"})
        \/ <>[]At(c, "send") \/ <>[]At(c, "store")
=============================================================================
