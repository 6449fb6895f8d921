--------------------------- MODULE PowerRequests ---------------------------
(***************************************************************************)
(* The idle-sleep layer (blocker/sleep.rs): one power-request object that  *)
(* holds a system and a display request.  The UI thread makes the Win32    *)
(* calls one after the other and each may fail; Windows may end the        *)
(* requests of a sleeping machine at any moment.  The object is external:  *)
(* it counts the requests set on it, and CloseHandle drops them.           *)
(***************************************************************************)
EXTENDS Naturals, Sequences

VARIABLES
  pc,           \* "idle", or the next Win32 call: "create", "set", "clear", "close"
  op,           \* the operation in progress: "activate", "deactivate" or "renew"
  next,         \* the index in RequestTypes of the next set or clear
  failed,       \* the operation has met an error
  handle,       \* handle.is_some()
  acquired,     \* acquired
  held,         \* external: the count of each request type on the object of `handle`
  stray,        \* history: requests are left on an object without a handle
  closeFailed,  \* history: a CloseHandle failed
  lapsed        \* history: Windows ended the requests since the object was created

requestVars == <<pc, op, next, failed, handle, acquired, held, stray, closeFailed, lapsed>>

RequestTypes == <<"system", "display">>
Types        == {"system", "display"}

None == [k \in Types |-> 0]

IsActive == handle /\ \A k \in Types : acquired[k]

RequestInit ==
  /\ pc = "idle" /\ op = "deactivate" /\ next = 1 /\ failed = FALSE
  /\ handle = FALSE /\ acquired = [k \in Types |-> FALSE] /\ held = None
  /\ stray = FALSE /\ closeFailed = FALSE /\ lapsed = FALSE

-----------------------------------------------------------------------------
\* SleepBlocker::activate: nothing to do while the pair is held.
ActivateRequests ==
  /\ pc = "idle"
  /\ op' = "activate" /\ failed' = FALSE
  /\ pc' = IF IsActive THEN "idle" ELSE "create"
  /\ UNCHANGED <<next, handle, acquired, held, stray, closeFailed, lapsed>>

\* SleepBlocker::deactivate, forced cleanup and drop: release what is held.
DeactivateRequests ==
  /\ pc = "idle"
  /\ op' = "deactivate" /\ failed' = FALSE /\ next' = 1
  /\ pc' = IF handle THEN "clear" ELSE "idle"
  /\ UNCHANGED <<handle, acquired, held, stray, closeFailed, lapsed>>

\* Mutant: a renewal sets the requests again on the old object.
RenewSetsAgain ==
  /\ pc = "idle"
  /\ op' = "renew" /\ failed' = FALSE
  /\ IF IsActive THEN pc' = "set" /\ next' = 1 ELSE pc' = "create" /\ UNCHANGED next
  /\ UNCHANGED <<handle, acquired, held, stray, closeFailed, lapsed>>

\* renew_after_resume closes the old object before it acquires the pair again.
RenewAfterResume ==
  /\ pc = "idle"
  /\ op' = "renew" /\ failed' = FALSE
  /\ pc' = "close"
  /\ UNCHANGED <<next, handle, acquired, held, stray, closeFailed, lapsed>>

\* PowerCreateRequest.  A handle still stored would be overwritten.
Create ==
  /\ pc = "create"
  /\ \/ /\ pc' = "set" /\ next' = 1
        /\ handle' = TRUE /\ held' = None /\ lapsed' = FALSE
        /\ stray' = (stray \/ (handle /\ held # None))
        /\ UNCHANGED failed
     \/ /\ pc' = "idle" /\ failed' = TRUE
        /\ UNCHANGED <<next, handle, held, lapsed, stray>>
  /\ UNCHANGED <<op, acquired, closeFailed>>

\* Mutant: a failed acquisition returns without releasing the first request.
SetGivesUp ==
  /\ pc = "set"
  /\ LET k == RequestTypes[next] IN
     \/ /\ held' = [held EXCEPT ![k] = @ + 1]
        /\ acquired' = [acquired EXCEPT ![k] = TRUE]
        /\ IF next = Len(RequestTypes) THEN pc' = "idle" /\ UNCHANGED next
                                       ELSE next' = next + 1 /\ UNCHANGED pc
        /\ UNCHANGED failed
     \/ /\ pc' = "idle" /\ failed' = TRUE
        /\ UNCHANGED <<next, held, acquired>>
  /\ UNCHANGED <<op, handle, stray, closeFailed, lapsed>>

\* PowerSetRequest for each type in turn; a failure releases what was acquired.
Set ==
  /\ pc = "set"
  /\ LET k == RequestTypes[next] IN
     \/ /\ held' = [held EXCEPT ![k] = @ + 1]
        /\ acquired' = [acquired EXCEPT ![k] = TRUE]
        /\ IF next = Len(RequestTypes) THEN pc' = "idle" /\ UNCHANGED next
                                       ELSE next' = next + 1 /\ UNCHANGED pc
        /\ UNCHANGED failed
     \/ /\ pc' = "clear" /\ next' = 1 /\ failed' = TRUE
        /\ UNCHANGED <<held, acquired>>
  /\ UNCHANGED <<op, handle, stray, closeFailed, lapsed>>

\* release: PowerClearRequest for each acquired type; a failure does not stop it.
Clear ==
  /\ pc = "clear"
  /\ LET k == RequestTypes[next] IN
     \/ ~acquired[k] /\ UNCHANGED <<held, failed>>
     \/ /\ acquired[k]
        /\ held' = [held EXCEPT ![k] = IF @ = 0 THEN 0 ELSE @ - 1]
        /\ UNCHANGED failed
     \/ /\ acquired[k]
        /\ failed' = TRUE /\ UNCHANGED held
  /\ IF next = Len(RequestTypes) THEN pc' = "close" /\ UNCHANGED next
                                 ELSE next' = next + 1 /\ UNCHANGED pc
  /\ UNCHANGED <<op, handle, acquired, stray, closeFailed, lapsed>>

\* close: forget the handle whatever CloseHandle says.  A renewal goes on to activate
\* when its close succeeded; the clean-up of a failed acquisition does not.
Close ==
  LET renewing == op = "renew" /\ ~failed IN
  /\ pc = "close"
  /\ acquired' = [k \in Types |-> FALSE]
  /\ handle' = FALSE /\ held' = None
  /\ \/ /\ pc' = IF renewing THEN "create" ELSE "idle"
        /\ UNCHANGED <<failed, stray, closeFailed>>
     \/ /\ handle
        /\ pc' = "idle" /\ failed' = TRUE /\ closeFailed' = TRUE
        /\ stray' = (stray \/ held # None)
  /\ UNCHANGED <<op, next, lapsed>>

\* Entering sleep, Windows ends the requests of the object; the handle stays valid.
WindowsEndsRequests ==
  /\ handle
  /\ held' = None /\ lapsed' = TRUE
  /\ UNCHANGED <<pc, op, next, failed, handle, acquired, stray, closeFailed>>

RequestNext ==
  \/ ActivateRequests \/ DeactivateRequests \/ RenewAfterResume
  \/ Create \/ Set \/ Clear \/ Close
  \/ WindowsEndsRequests

RequestSpec == RequestInit /\ [][RequestNext]_requestVars

-----------------------------------------------------------------------------
\* The variables' types; PowerRequests::activate never overwrites a handle it still stores.
RequestTypeOK ==
  /\ pc \in {"idle", "create", "set", "clear", "close"}
  /\ op \in {"activate", "deactivate", "renew"}
  /\ next \in DOMAIN RequestTypes
  /\ acquired \in [Types -> BOOLEAN] /\ held \in [Types -> Nat]
  /\ failed \in BOOLEAN /\ handle \in BOOLEAN
  /\ stray \in BOOLEAN /\ closeFailed \in BOOLEAN /\ lapsed \in BOOLEAN
  /\ pc = "create" => ~handle

\* However often resume is notified and whatever call fails, no request type is counted
\* twice on the object (renew_after_resume never adds to surviving counts).
NeverAccumulates == \A k \in Types : held[k] <= 1

\* Between operations the pair is held whole or not at all: a failed acquisition leaves
\* no half-armed object behind.
AllOrNothing ==
  pc = "idle" => /\ handle => IsActive
                 /\ ~handle => held = None /\ \A k \in Types : ~acquired[k]

\* Reported protection is real until Windows itself ends it.
ActiveMeansHeld ==
  pc = "idle" /\ IsActive /\ ~lapsed => \A k \in Types : held[k] = 1

\* Requests outlive their handle only when Windows refused to close it.
NothingOutlivesItsHandle == stray => closeFailed

\* A renewal that reports success leaves a fresh object with exactly one pair, unless
\* Windows ends it again meanwhile.
RenewalLeavesOnePair ==
  [][op = "renew" /\ pc # "idle" /\ pc' = "idle" /\ ~failed' =>
       \/ lapsed'
       \/ handle' /\ \A k \in Types : held'[k] = 1]_requestVars
=============================================================================
