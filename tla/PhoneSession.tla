---------------------------- MODULE PhoneSession ----------------------------
(***************************************************************************)
(* One session of the Android app (the child's or the parent's) and the    *)
(* calls that use it: ApiClient.kt's authed and tryRefresh over the token   *)
(* pair in SessionStore.kt, and the stateless server of auth.service.ts.   *)
(*                                                                         *)
(* Every screen and service builds an ApiClient of its own over the shared *)
(* store.  A client has a mutex around its refresh; the store has none.    *)
(* Between two suspension points a coroutine runs undisturbed.             *)
(***************************************************************************)
EXTENDS Integers

CONSTANTS
  Client,     (* ApiClient instances over one session                       *)
  Call,       (* authenticated calls, each made once                        *)
  ClientOf,   (* the client of each call                                    *)
  CanLogOut,  (* the parent's session has a Log out button, the child's not *)
  MaxLogins,  (* bound: sign-ins, or pairings, in a behaviour               *)
  MaxFaults   (* bound: failed or cancelled calls and ends of the process   *)

None == 0
Free == "free"

ASSUME PhoneAssumption ==
  /\ Free \notin Call
  /\ ClientOf \in [Call -> Client]
  /\ CanLogOut \in BOOLEAN
  /\ MaxLogins \in Nat /\ MaxFaults \in Nat

VARIABLES
  session,    (* SessionStore: the token pair, saved and removed as one     *)
  shown,      (* hasChildSession, hasParentSession: what the screen believes *)
  issued,     (* how many pairs issueTokenPair has signed: pair n is the nth *)
  expired,    (* the access tokens of the pairs up to this one are too old  *)
  lapsed,     (* and the refresh tokens of the pairs up to this one as well *)
  mutex,      (* refreshMutex of each client: the call that holds it        *)
  call,       (* the local state of each call                               *)
  refreshed,  (* history: which call has replaced which pair                *)
  underWay,   (* history: the calls that were refreshing at the last log-out *)
  logins, faults

vars == <<session, shown, issued, expired, lapsed, mutex, call, refreshed, underWay, logins, faults>>

Ended == {"ok", "denied", "failed"}
Blank == [pc |-> "idle", token |-> None, with |-> None, new |-> None]
Set(c, local) == call' = [call EXCEPT ![c] = local]
Goto(c, pc) == Set(c, [call[c] EXCEPT !.pc = pc])

UnlockNever(c) == UNCHANGED mutex   \* mutant: the lock is not released
Unlock(c) == mutex' = [mutex EXCEPT ![ClientOf[c]] = Free]
Holds(c) == mutex[ClientOf[c]] = c
Refreshing(c) == call[c].pc \in {"refresh", "save"}

(* login, bootstrapParent or claimDevice, and the save of their pair.        *)
SignIn ==
  /\ ~shown /\ logins < MaxLogins
  /\ issued' = issued + 1 /\ session' = issued + 1
  /\ shown' = TRUE
  /\ logins' = logins + 1
  /\ UNCHANGED <<expired, lapsed, mutex, call, refreshed, underWay, faults>>

(* The calls of the screen are cancelled when it is next drawn, not here.    *)
LogOut ==
  /\ CanLogOut /\ shown
  /\ session' = None /\ shown' = FALSE
  /\ underWay' = {c \in Call : Refreshing(c)}
  /\ UNCHANGED <<issued, expired, lapsed, mutex, call, refreshed, logins, faults>>

(* An access token lives for 15 minutes, a refresh token for 30 days: the     *)
(* oldest goes first.                                                        *)
Expire ==
  /\ \/ expired < issued /\ expired' = expired + 1 /\ UNCHANGED lapsed
     \/ lapsed < expired /\ lapsed' = lapsed + 1 /\ UNCHANGED expired
  /\ UNCHANGED <<session, shown, issued, mutex, call, refreshed, underWay, logins, faults>>

(***************************************************************************)
(* authed                                                                  *)
(***************************************************************************)
Send(c) ==
  /\ call[c].pc = "idle"
  /\ Set(c, [Blank EXCEPT !.pc = "sent", !.token = session])
  /\ UNCHANGED <<session, shown, issued, expired, lapsed, mutex, refreshed, underWay, logins, faults>>

(* JwtAuthGuard: 401 for a token that is missing or expired.                 *)
Accepted(token) == token # None /\ token > expired
Answer(c) ==
  /\ call[c].pc = "sent"
  /\ Goto(c, IF Accepted(call[c].token) THEN "ok" ELSE "wait")
  /\ UNCHANGED <<session, shown, issued, expired, lapsed, mutex, refreshed, underWay, logins, faults>>

(* Under the lock the token is read again: another call of this client may    *)
(* have replaced it.  Without a refresh token the 401 stands.                *)
ReplacedAlways(c) == session # None   \* mutant: any token is taken for a new one
Replaced(c) == session # None /\ session # call[c].token
RefreshAsRead(c) ==   \* mutant: it is not, the token pair is the one of before
  /\ call[c].pc = "wait" /\ mutex[ClientOf[c]] = Free /\ call[c].token # None
  /\ Set(c, [call[c] EXCEPT !.pc = "refresh", !.with = call[c].token])
  /\ mutex' = [mutex EXCEPT ![ClientOf[c]] = c]
  /\ UNCHANGED <<session, shown, issued, expired, lapsed, refreshed, underWay, logins, faults>>
LockAndRefresh(c) ==
  /\ call[c].pc = "wait" /\ mutex[ClientOf[c]] = Free
  /\ \/ /\ Replaced(c)
        /\ Set(c, [call[c] EXCEPT !.pc = "retry", !.new = session])
        /\ UNCHANGED mutex
     \/ /\ ~Replaced(c) /\ session = None
        /\ Goto(c, "denied")
        /\ UNCHANGED mutex
     \/ /\ ~Replaced(c) /\ session # None
        /\ Set(c, [call[c] EXCEPT !.pc = "refresh", !.with = session])
        /\ mutex' = [mutex EXCEPT ![ClientOf[c]] = c]
  /\ UNCHANGED <<session, shown, issued, expired, lapsed, refreshed, underWay, logins, faults>>

(* AuthService.refresh: any refresh token that has not lapsed, however often. *)
Refresh(c) ==
  /\ call[c].pc = "refresh"
  /\ \/ /\ call[c].with > lapsed
        /\ issued' = issued + 1
        /\ Set(c, [call[c] EXCEPT !.pc = "save", !.new = issued + 1])
        /\ UNCHANGED mutex
     \/ /\ call[c].with <= lapsed
        /\ Goto(c, "denied") /\ Unlock(c)
        /\ UNCHANGED issued
  /\ UNCHANGED <<session, shown, expired, lapsed, refreshed, underWay, logins, faults>>

(* onTokensRefreshed saves the pair whatever the store holds by now.         *)
SaveTokens(c) ==
  /\ call[c].pc = "save"
  /\ session' = call[c].new
  /\ refreshed' = refreshed \cup {[call |-> c, pair |-> call[c].with]}
  /\ Goto(c, "retry") /\ Unlock(c)
  /\ UNCHANGED <<shown, issued, expired, lapsed, underWay, logins, faults>>

(* The answer to the second attempt stands.                                  *)
Retry(c) ==
  /\ call[c].pc = "retry"
  /\ Goto(c, IF Accepted(call[c].new) THEN "ok" ELSE "denied")
  /\ UNCHANGED <<session, shown, issued, expired, lapsed, mutex, refreshed, underWay, logins, faults>>

(* The network fails, or the screen is left and its coroutine cancelled: the  *)
(* exception leaves withLock, which releases the mutex.                      *)
Fails(c) ==
  /\ faults < MaxFaults
  /\ call[c].pc \notin {"idle"} \cup Ended
  /\ Goto(c, "failed")
  /\ IF Holds(c) THEN Unlock(c) ELSE UNCHANGED mutex
  /\ faults' = faults + 1
  /\ UNCHANGED <<session, shown, issued, expired, lapsed, refreshed, underWay, logins>>

(* Android ends the process; the next start believes what the store says.    *)
ProcessEnds ==
  /\ faults < MaxFaults
  /\ call' = [c \in Call |-> IF call[c].pc \in {"idle"} \cup Ended THEN call[c]
                             ELSE [call[c] EXCEPT !.pc = "failed"]]
  /\ mutex' = [k \in Client |-> Free]
  /\ shown' = (session # None)
  /\ faults' = faults + 1
  /\ UNCHANGED <<session, issued, expired, lapsed, refreshed, underWay, logins>>

CallStep(c) == Answer(c) \/ LockAndRefresh(c) \/ Refresh(c) \/ SaveTokens(c) \/ Retry(c)

Init ==
  /\ session = None /\ shown = FALSE
  /\ issued = 0 /\ expired = 0 /\ lapsed = 0
  /\ mutex = [k \in Client |-> Free]
  /\ call = [c \in Call |-> Blank]
  /\ refreshed = {} /\ underWay = {}
  /\ logins = 0 /\ faults = 0

Next ==
  \/ SignIn \/ LogOut \/ Expire \/ ProcessEnds
  \/ \E c \in Call : Send(c) \/ CallStep(c) \/ Fails(c)

Spec == Init /\ [][Next]_vars

(* Answers and the turns of a coroutine come in the end; nobody has to call.  *)
FairSpec == Spec /\ \A c \in Call : WF_vars(CallStep(c))

-----------------------------------------------------------------------------
Local == [pc: {"idle", "sent", "wait", "refresh", "save", "retry"} \cup Ended,
          token: Nat, with: Nat, new: Nat]
(* Every variable has its type, and a mutex is held by a call of its client   *)
(* that is refreshing, and by no other.                                       *)
TypeOK ==
  /\ session \in 0..issued /\ shown \in BOOLEAN
  /\ issued \in Nat /\ expired \in 0..issued /\ lapsed \in 0..expired
  /\ mutex \in [Client -> Call \cup {Free}]
  /\ call \in [Call -> Local]
  /\ refreshed \subseteq [call: Call, pair: Nat] /\ underWay \subseteq Call
  /\ \A c \in Call : Holds(c) <=> Refreshing(c)
  /\ logins \in Nat /\ faults \in Nat

(* Calls of one client that meet the same expired token replace it once,      *)
(* however many of them wait for the lock (ApiClient.kt:49).                  *)
OneRefreshPerClient ==
  \A x, y \in refreshed :
    x.pair = y.pair /\ ClientOf[x.call] = ClientOf[y.call] => x = y

(* A second attempt is never made with the token that was refused.            *)
FreshRetry == \A c \in Call : call[c].pc = "retry" => call[c].new # call[c].token

(* While the app shows the sign-in card the store is empty, unless a call that *)
(* was refreshing at the last log-out has saved its pair since: a call that     *)
(* waits for the lock at a log-out, or fails, or is made after it, refreshes    *)
(* nothing, and no refresh that ended before it leaves anything behind          *)
(* (ApiClient.kt:64-76 reads the store anew under the lock).                   *)
SignedOutButForRefresh ==
  ~shown /\ session # None => \E x \in refreshed : x.call \in underWay

(* Every call ends, and with it the wait of those behind it, although          *)
(* refreshes fail, are refused or are cancelled while they hold the lock.     *)
CallsEnd == \A c \in Call : (call[c].pc # "idle") ~> (call[c].pc \in Ended)

(* "a burst of concurrent 401s triggers a single refresh rather than racing   *)
(* to rotate the (single-use) refresh token" (ApiClient.kt:49): two clients    *)
(* have two mutexes and refute it.                                            *)
OneRefreshPerPair == \A x, y \in refreshed : x.pair = y.pair => x = y

(* "Log out clears the parent session." (docs/plans/android-bring-up.md:62):  *)
(* while the app shows the sign-in card there is no session.  The save of a    *)
(* refresh that was under way refutes it.                                     *)
LoggedOut == ~shown => session = None

-----------------------------------------------------------------------------
(* Why a pair is replaced once: a pair that its call has not saved yet is      *)
(* known to no one else, and a pair that was replaced never comes back.       *)
Known ==
  \A c \in Call : /\ call[c].token <= issued /\ call[c].with <= issued
                  /\ Refreshing(c) => call[c].with # None
Unseen(p) ==
  /\ p \in 1..issued /\ p # session
  /\ \A x \in refreshed : x.pair # p
  /\ \A d \in Call : call[d].token # p /\ call[d].with # p
NewIsUnseen ==
  \A c \in Call : call[c].pc = "save" =>
    /\ Unseen(call[c].new)
    /\ \A d \in Call \ {c} : call[d].pc = "save" => call[d].new # call[c].new
ReplacedIsGone == \A x \in refreshed : x.pair \in (1..issued) \ {session}
NotReplacedYet ==
  \A c \in Call, x \in refreshed :
    Refreshing(c) /\ ClientOf[x.call] = ClientOf[c] => x.pair # call[c].with
SessionInv ==
  TypeOK /\ Known /\ NewIsUnseen /\ ReplacedIsGone /\ NotReplacedYet
    /\ OneRefreshPerClient /\ FreshRetry
=============================================================================
