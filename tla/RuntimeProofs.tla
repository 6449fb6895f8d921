--------------------------- MODULE RuntimeProofs ---------------------------
(***************************************************************************)
(* Proofs about Runtime.  Each fallible operation is a set of outcomes, so *)
(* there is one lemma per operation, saying what every outcome preserves;  *)
(* the lemmas compose in the order of the calls, and the theorems then     *)
(* take one step per action.                                               *)
(*                                                                         *)
(* Two of the layers follow.  Layer 3 for any number of crashes: the       *)
(* reported state is true, a task that Wardoff disabled comes back, and    *)
(* only such a task is enabled.  The idle-sleep layer for any number of    *)
(* activations, renewals, failures and sleeps: the pair of requests is     *)
(* held once, whole or not at all.                                         *)
(***************************************************************************)
EXTENDS Runtime, UpdateLayer, PowerRequests, TLAPS

\* A well-formed coordinator: a thread, its flag and its stop belong to a kept worker.
Owned(b) ==
  \A l \in Background :
    /\ b.thread[l] # "none" => b.worker[l]
    /\ b.active[l] => b.thread[l] = "running"
    /\ b.stopping[l] => b.thread[l] # "none"

WellFormed(b) == b \in BlockerType /\ Owned(b)

\* What set_mode keeps true of every coordinator, also of one that survived the end of the
\* session: it does not come back to Allow half-armed.
Tidy(b) == b.mode = "Allow" => Released(b)

\* What it keeps true of a coordinator Windows has not ended.
Consistent(b) ==
  /\ b.mode = "Allow" => Released(b)
  /\ b.mode = "Block" => b.reason /\ b.veto

SameLayer1(b, c) == c.mode = b.mode /\ c.reason = b.reason /\ c.veto = b.veto
-----------------------------------------------------------------------------
\* The fields of an outcome.
LEMMA OutcomeFields ==
  \A b : /\ Outcome(TRUE, b).ok = TRUE /\ Outcome(TRUE, b).b = b
         /\ Outcome(FALSE, b).ok = FALSE /\ Outcome(FALSE, b).b = b
  BY DEF Outcome

\* Joining a worker leaves its layer fully off and touches nothing else.
LEMMA BackgroundDeactivateLemma ==
  ASSUME NEW b, WellFormed(b), NEW l \in Background
  PROVE  LET c == BackgroundDeactivate(b, l) IN
         /\ WellFormed(c) /\ SameLayer1(b, c) /\ c.sleep = b.sleep
         /\ ~c.worker[l] /\ c.thread[l] = "none" /\ ~c.active[l] /\ ~c.stopping[l]
         /\ \A k \in Background \ {l} :
              /\ c.worker[k] = b.worker[k] /\ c.thread[k] = b.thread[k]
              /\ c.active[k] = b.active[k] /\ c.stopping[k] = b.stopping[k]
  BY ZenonT(60) DEF BackgroundDeactivate, WellFormed, Owned, BlockerType, SameLayer1, Threads

\* The tail of every deactivation path turns Layers 2-4 and the sleep layer off.
LEMMA DeactivateOtherLayersLemma ==
  ASSUME NEW b, WellFormed(b)
  PROVE  LET c == DeactivateOtherLayers(b) IN
         WellFormed(c) /\ SameLayer1(b, c) /\ LayersOff(c)
<1> DEFINE c0 == SleepDeactivate(b)
           c1 == BackgroundDeactivate(c0, "remote")
           c2 == BackgroundDeactivate(c1, "update")
           c3 == BackgroundDeactivate(c2, "local")
<1>0. WellFormed(c0) /\ SameLayer1(b, c0) /\ ~c0.sleep
  BY Zenon DEF SleepDeactivate, WellFormed, Owned, BlockerType, SameLayer1
<1>l. "remote" \in Background /\ "update" \in Background /\ "local" \in Background
  BY DEF Background
<1> HIDE DEF c0
<1>1. /\ WellFormed(c1) /\ SameLayer1(c0, c1) /\ c1.sleep = c0.sleep
      /\ ~c1.worker["remote"] /\ c1.thread["remote"] = "none"
      /\ ~c1.active["remote"] /\ ~c1.stopping["remote"]
  BY <1>0, <1>l, BackgroundDeactivateLemma
<1> HIDE DEF c1
<1>2. /\ WellFormed(c2) /\ SameLayer1(c1, c2) /\ c2.sleep = c1.sleep
      /\ \A l \in {"remote", "update"} : ~c2.worker[l] /\ c2.thread[l] = "none"
                                        /\ ~c2.active[l] /\ ~c2.stopping[l]
  BY <1>1, <1>l, BackgroundDeactivateLemma DEF Background
<1> HIDE DEF c2
<1>3. /\ WellFormed(c3) /\ SameLayer1(c2, c3) /\ c3.sleep = c2.sleep
      /\ \A l \in Background : ~c3.worker[l] /\ c3.thread[l] = "none"
                               /\ ~c3.active[l] /\ ~c3.stopping[l]
  BY <1>2, <1>l, BackgroundDeactivateLemma DEF Background
<1>4. DeactivateOtherLayers(b) = c3
  BY DEF DeactivateOtherLayers, c0, c1, c2
<1>5. SameLayer1(b, c3) /\ LayersOff(c3)
  BY <1>0, <1>1, <1>2, <1>3 DEF SameLayer1, LayersOff
<1> QED
  BY <1>3, <1>4, <1>5

\* Releasing the block reason either clears both Layer 1 flags or changes neither.
LEMMA ShutdownDeactivateLemma ==
  ASSUME NEW b, WellFormed(b), NEW d \in ShutdownDeactivate(b)
  PROVE  /\ d.ok \in BOOLEAN /\ WellFormed(d.b) /\ d.b.mode = b.mode
         /\ d.ok => ~d.b.reason /\ ~d.b.veto
         /\ ~d.ok => b.reason /\ d.b = b
         /\ LayersOff(b) => LayersOff(d.b)
<1> DEFINE c == [b EXCEPT !.reason = FALSE, !.veto = FALSE]
<1>1. WellFormed(c) /\ c.mode = b.mode /\ ~c.reason /\ ~c.veto
      /\ (LayersOff(b) => LayersOff(c))
  BY Zenon DEF WellFormed, Owned, BlockerType, LayersOff
<1>2. CASE b.reason
  <2>1. d = Outcome(TRUE, c) \/ d = Outcome(FALSE, b)
    BY <1>2, Zenon DEF ShutdownDeactivate
  <2>2. CASE d = Outcome(TRUE, c)
    BY <2>2, <1>1, Zenon DEF Outcome
  <2>3. CASE d = Outcome(FALSE, b)
    BY <2>3, <1>2 DEF Outcome
  <2> QED
    BY <2>1, <2>2, <2>3, Zenon
<1>3. CASE ~b.reason
  <2>1. d = Outcome(TRUE, [b EXCEPT !.veto = FALSE])
    BY <1>3 DEF ShutdownDeactivate
  <2>2. [b EXCEPT !.veto = FALSE] = c
    BY <1>3, Zenon DEF WellFormed, BlockerType
  <2> QED
    BY <2>1, <2>2, <1>1, Zenon DEF Outcome
<1> QED
  BY <1>2, <1>3

\* A failed or successful start of Layers 2-4 or of the sleep layer leaves Layer 1 alone.
LEMMA LayerActivateLemma ==
  ASSUME NEW b, WellFormed(b),
         NEW r \in LocalActivate(b) \cup UpdateActivate(b)
                   \cup RemoteActivate(b) \cup SleepActivate(b)
  PROVE  r.ok \in BOOLEAN /\ WellFormed(r.b) /\ SameLayer1(b, r.b)
<1> DEFINE c == CleanupFinishedWorker(b)
<1>1. WellFormed(c) /\ SameLayer1(b, c)
  BY Zenon DEF CleanupFinishedWorker, WellFormed, Owned, BlockerType, SameLayer1, Background, Threads
<1>2. ASSUME NEW e, WellFormed(e), NEW l \in Background, ~e.worker[l]
      PROVE  WellFormed(Spawn(e, l)) /\ SameLayer1(e, Spawn(e, l))
  BY <1>2, ZenonT(60) DEF Spawn, WellFormed, Owned, BlockerType, SameLayer1, Threads
<1>l. "remote" \in Background /\ "update" \in Background /\ "local" \in Background
  BY DEF Background
<1> HIDE DEF c
<1>o. \E e : \/ r = Outcome(TRUE, e) \/ r = Outcome(FALSE, e)
  BY Zenon DEF LocalActivate, UpdateActivate, RemoteActivate, SleepActivate
<1>p. r.ok \in BOOLEAN
  BY <1>o, OutcomeFields, Zenon
<1>3. CASE r \in LocalActivate(b)
  <2>1. r.b = c \/ (~c.worker["local"] /\ r.b = Spawn(c, "local"))
    BY <1>3 DEF LocalActivate, Outcome, c
  <2>2. WellFormed(r.b) /\ SameLayer1(c, r.b)
    BY <2>1, <1>1, <1>2, <1>l DEF SameLayer1
  <2> QED
    BY <2>2, <1>1, <1>p DEF SameLayer1
<1>4. CASE r \in UpdateActivate(b)
  <2>1. r.b = b \/ (~b.worker["update"] /\ r.b = Spawn(b, "update"))
    BY <1>4 DEF UpdateActivate, Outcome
  <2> QED
    BY <2>1, <1>2, <1>l, <1>p DEF SameLayer1
<1>5. CASE r \in RemoteActivate(b)
  <2>1. r.b = b \/ (~b.worker["remote"] /\ r.b = Spawn(b, "remote"))
    BY <1>5 DEF RemoteActivate, Outcome
  <2> QED
    BY <2>1, <1>2, <1>l, <1>p DEF SameLayer1
<1>6. CASE r \in SleepActivate(b)
  <2> DEFINE e == [b EXCEPT !.sleep = TRUE]
  <2>1. r = Outcome(TRUE, b) \/ r = Outcome(TRUE, e) \/ r = Outcome(FALSE, b)
    BY <1>6, Zenon DEF SleepActivate
  <2>2. WellFormed(e) /\ SameLayer1(b, e)
    BY Zenon DEF WellFormed, Owned, BlockerType, SameLayer1
  <2> HIDE DEF e
  <2>3. r.b = b \/ r.b = e
    BY <2>1, OutcomeFields, Zenon
  <2> QED
    BY <2>2, <2>3, <1>p DEF SameLayer1
<1> QED
  BY <1>3, <1>4, <1>5, <1>6

\* Registering the block reason raises the veto; an already registered one changes nothing.
LEMMA ShutdownActivateLemma ==
  ASSUME NEW b, WellFormed(b), NEW r \in ShutdownActivate(b)
  PROVE  /\ r.ok \in BOOLEAN /\ WellFormed(r.b) /\ r.b.mode = b.mode
         /\ r.ok /\ ~b.reason => r.b.reason /\ r.b.veto
         /\ ~r.ok => r.b = b
<1> DEFINE c == [b EXCEPT !.reason = TRUE, !.veto = TRUE]
<1>1. WellFormed(c) /\ c.mode = b.mode /\ c.reason /\ c.veto
  BY Zenon DEF WellFormed, Owned, BlockerType
<1>2. \/ r = Outcome(TRUE, b) /\ b.reason
      \/ r = Outcome(TRUE, c)
      \/ r = Outcome(FALSE, b)
  BY Zenon DEF ShutdownActivate
<1> HIDE DEF c
<1> QED
  BY <1>1, <1>2, OutcomeFields, Zenon

\* activate_block_mode: from a released Layer 1, success arms it and failure releases all.
LEMMA ActivateBlockModeLemma ==
  ASSUME NEW b, WellFormed(b), NEW r \in ActivateBlockMode(b)
  PROVE  /\ r.ok \in BOOLEAN /\ WellFormed(r.b) /\ r.b.mode = b.mode
         /\ ~b.reason /\ ~b.veto => IF r.ok THEN r.b.reason /\ r.b.veto ELSE Released(r.b)
<1> DEFINE R1 == LocalActivate(b)
           R2 == AndThen(R1, UpdateActivate)
           R3 == AndThen(R2, RemoteActivate)
           R4 == AndThen(R3, SleepActivate)
           R5 == AndThen(R4, ShutdownActivate)
           Good(x) == x.ok \in BOOLEAN /\ WellFormed(x.b) /\ SameLayer1(b, x.b)
<1>1. \A x \in R1 : Good(x)
  BY LayerActivateLemma
<1>2. \A x \in R2 : Good(x)
  <2> TAKE x \in R2
  <2>1. PICK y \in R1 : x \in IF y.ok THEN UpdateActivate(y.b) ELSE {y}
    BY DEF AndThen
  <2> HIDE DEF R1
  <2> QED
    BY <1>1, <2>1, LayerActivateLemma DEF SameLayer1
<1>3. \A x \in R3 : Good(x)
  <2> TAKE x \in R3
  <2>1. PICK y \in R2 : x \in IF y.ok THEN RemoteActivate(y.b) ELSE {y}
    BY DEF AndThen
  <2> HIDE DEF R2
  <2> QED
    BY <1>2, <2>1, LayerActivateLemma DEF SameLayer1
<1>4. \A x \in R4 : Good(x)
  <2> TAKE x \in R4
  <2>1. PICK y \in R3 : x \in IF y.ok THEN SleepActivate(y.b) ELSE {y}
    BY DEF AndThen
  <2> HIDE DEF R3
  <2> QED
    BY <1>3, <2>1, LayerActivateLemma DEF SameLayer1
<1>5. \A x \in R5 : /\ x.ok \in BOOLEAN /\ WellFormed(x.b) /\ x.b.mode = b.mode
                    /\ x.ok /\ ~b.reason => x.b.reason /\ x.b.veto
                    /\ ~x.ok => SameLayer1(b, x.b)
  <2> TAKE x \in R5
  <2>1. PICK y \in R4 : x \in IF y.ok THEN ShutdownActivate(y.b) ELSE {y}
    BY DEF AndThen
  <2> HIDE DEF R4
  <2> QED
    BY <1>4, <2>1, ShutdownActivateLemma DEF SameLayer1
<1>6. PICK x \in R5 : r \in IF x.ok THEN {x} ELSE RollbackFailedBlockActivation(x.b)
  BY DEF ActivateBlockMode
<1> HIDE DEF R5
<1>7. CASE x.ok
  BY <1>5, <1>6, <1>7
<1>8. CASE ~x.ok
  <2> DEFINE e == DeactivateOtherLayers(x.b)
  <2>1. WellFormed(x.b) /\ SameLayer1(b, x.b)
    BY <1>5, <1>8
  <2>2. WellFormed(e) /\ SameLayer1(b, e) /\ LayersOff(e)
    BY <2>1, DeactivateOtherLayersLemma DEF SameLayer1
  <2> HIDE DEF e
  <2>3. PICK d \in ShutdownDeactivate(e) : r = Outcome(FALSE, d.b)
    BY <1>6, <1>8, Zenon DEF RollbackFailedBlockActivation, e
  <2>4. /\ WellFormed(d.b) /\ d.b.mode = e.mode /\ LayersOff(d.b)
        /\ ~e.reason => ~d.b.reason /\ ~d.b.veto
    BY <2>2, <2>3, ShutdownDeactivateLemma
  <2> QED
    BY <2>2, <2>3, <2>4 DEF Outcome, Released, SameLayer1
<1> QED
  BY <1>7, <1>8

\* activate_allow_mode: everything but Layer 1 always goes off, and Layer 1 goes off or
\* stays as it was.
LEMMA ActivateAllowModeLemma ==
  ASSUME NEW b, WellFormed(b), NEW r \in ActivateAllowMode(b)
  PROVE  /\ r.ok \in BOOLEAN /\ WellFormed(r.b) /\ r.b.mode = b.mode
         /\ r.ok => Released(r.b)
         /\ ~r.ok => SameLayer1(b, r.b)
<1>1. PICK d \in ShutdownDeactivate(b) : r = Outcome(d.ok, DeactivateOtherLayers(d.b))
  BY DEF ActivateAllowMode
<1>2. /\ d.ok \in BOOLEAN /\ WellFormed(d.b) /\ d.b.mode = b.mode
      /\ d.ok => ~d.b.reason /\ ~d.b.veto
      /\ ~d.ok => d.b = b
  BY ShutdownDeactivateLemma
<1> DEFINE e == DeactivateOtherLayers(d.b)
<1>3. WellFormed(e) /\ SameLayer1(d.b, e) /\ LayersOff(e)
  BY <1>2, DeactivateOtherLayersLemma
<1> HIDE DEF e
<1>4. r.ok = d.ok /\ r.b = e
  BY <1>1 DEF Outcome, e
<1> QED
  BY <1>2, <1>3, <1>4 DEF Released, SameLayer1

\* set_mode of the coordinator: the mode becomes the requested one exactly on success, and
\* mode and layers stay consistent with each other whatever failed on the way.
LEMMA CoordinatorSetModeLemma ==
  ASSUME NEW b, WellFormed(b), NEW m \in Modes, NEW r \in CoordinatorSetMode(b, m)
  PROVE  /\ r.ok \in BOOLEAN /\ WellFormed(r.b)
         /\ r.ok => r.b.mode = m
         /\ ~r.ok => r.b.mode = b.mode
         /\ Consistent(b) => Consistent(r.b)
         /\ Tidy(b) => Tidy(r.b)
<1>0. b.mode \in Modes
  BY DEF WellFormed, BlockerType
<1>1. CASE b.mode = m
  <2>1. r = Outcome(TRUE, b)
    BY <1>1 DEF CoordinatorSetMode
  <2> QED
    BY <1>1, <2>1, OutcomeFields, Zenon
<1>2. CASE b.mode # m
  <2> DEFINE R == IF m = "Block" THEN ActivateBlockMode(b) ELSE ActivateAllowMode(b)
  <2>1. PICK a \in R : r = IF a.ok THEN Outcome(TRUE, [a.b EXCEPT !.mode = m]) ELSE a
    BY <1>2, Zenon DEF CoordinatorSetMode
  <2>2. /\ a.ok \in BOOLEAN /\ WellFormed(a.b) /\ a.b.mode = b.mode
        /\ m = "Block" /\ ~b.reason /\ ~b.veto =>
             IF a.ok THEN a.b.reason /\ a.b.veto ELSE Released(a.b)
        /\ m = "Allow" => IF a.ok THEN Released(a.b) ELSE SameLayer1(b, a.b)
    <3>1. CASE m = "Block"
      BY <3>1, ActivateBlockModeLemma
    <3>2. CASE m = "Allow"
      BY <3>2, ActivateAllowModeLemma
    <3> QED
      BY <3>1, <3>2 DEF Modes
  <2> HIDE DEF R
  <2>3. CASE a.ok
    <3> DEFINE e == [a.b EXCEPT !.mode = m]
    <3>1. /\ WellFormed(e) /\ e.mode = m /\ e.reason = a.b.reason /\ e.veto = a.b.veto
          /\ Released(a.b) => Released(e)
      BY <2>2 DEF WellFormed, Owned, BlockerType, Released, LayersOff
    <3> HIDE DEF e
    <3>2. r.ok = TRUE /\ r.b = e
      BY <2>1, <2>3, OutcomeFields, Zenon DEF e
    <3> QED
      BY <1>0, <1>2, <2>2, <2>3, <3>1, <3>2, Zenon DEF Consistent, Tidy, Released, Modes
  <2>4. CASE ~a.ok
    BY <1>0, <1>2, <2>1, <2>2, <2>4 DEF Consistent, Tidy, Released, SameLayer1, Modes
  <2> QED
    BY <2>3, <2>4
<1> QED
  BY <1>1, <1>2
-----------------------------------------------------------------------------
TrayOK(t) ==
  t \in TrayType /\ Len(t.cmds) <= MaxTrayBacklog /\ (t.alive => surface # "Headless")

InStep(b, t) == t.alive => LastMode(t) = b.mode

\* Whatever becomes of a SetMode command, it is the last one a living tray was sent.
LEMMA SyncTrayLemma ==
  ASSUME NEW t, TrayOK(t), NEW m \in Modes, NEW s \in SyncTray(t, m)
  PROVE  /\ s.ok \in BOOLEAN /\ TrayOK(s.t) /\ s.t.alive = t.alive
         /\ s.t.alive => LastMode(s.t) = m
<1> DEFINE h == [t EXCEPT !.mode = m, !.cmds = << >>]
           q == [t EXCEPT !.cmds = Append(@, m)]
<1>1. TrayOK(h) /\ h.alive = t.alive /\ LastMode(h) = m
  <2>1. << >> \in Seq(Modes) /\ Len(<< >>) = 0
    OBVIOUS
  <2>2. h \in TrayType /\ h.alive = t.alive /\ h.mode = m /\ h.cmds = << >>
    BY <2>1, Zenon DEF TrayOK, TrayType
  <2> QED
    BY <2>1, <2>2, BacklogAssumption DEF TrayOK, LastMode
<1>2. Len(t.cmds) < MaxTrayBacklog => TrayOK(q) /\ q.alive = t.alive /\ LastMode(q) = m
  <2> SUFFICES ASSUME Len(t.cmds) < MaxTrayBacklog
               PROVE  TrayOK(q) /\ q.alive = t.alive /\ LastMode(q) = m
    OBVIOUS
  <2>1. /\ q \in TrayType /\ q.alive = t.alive /\ q.cmds = Append(t.cmds, m)
        /\ t.cmds \in Seq(Modes)
    BY DEF TrayOK, TrayType
  <2>2. /\ Len(q.cmds) = Len(t.cmds) + 1 /\ Len(t.cmds) \in Nat
        /\ q.cmds[Len(q.cmds)] = m
    BY <2>1
  <2>e. Len(<< >>) = 0
    OBVIOUS
  <2> HIDE DEF q
  <2>3. q.cmds # << >>
    BY <2>2, <2>e
  <2> QED
    BY <2>1, <2>2, <2>3, BacklogAssumption DEF TrayOK, LastMode
<1>3. \/ s = [ok |-> TRUE, t |-> t] /\ surface = "Headless"
      \/ s = [ok |-> FALSE, t |-> t] /\ ~t.alive
      \/ s = [ok |-> TRUE, t |-> h]
      \/ s = [ok |-> FALSE, t |-> h]
      \/ s = [ok |-> FALSE, t |-> q] /\ Len(t.cmds) < MaxTrayBacklog
  BY DEF SyncTray
<1> HIDE DEF h, q
<1>4. s.ok \in BOOLEAN /\
      (\/ s.t = t /\ (surface = "Headless" \/ ~t.alive)
       \/ s.t = h
       \/ s.t = q /\ Len(t.cmds) < MaxTrayBacklog)
  <2>1. \A u : /\ [ok |-> TRUE, t |-> u].ok = TRUE /\ [ok |-> TRUE, t |-> u].t = u
               /\ [ok |-> FALSE, t |-> u].ok = FALSE /\ [ok |-> FALSE, t |-> u].t = u
    OBVIOUS
  <2> QED
    BY <1>3, <2>1, Zenon
<1> QED
  BY <1>1, <1>2, <1>4 DEF TrayOK

\* What every outcome of a mode change keeps, for the coordinator and the tray together.
Kept(b, t, c, u) ==
  /\ WellFormed(c) /\ TrayOK(u) /\ u.alive = t.alive
  /\ Consistent(b) => Consistent(c)
  /\ Tidy(b) => Tidy(c)

\* A rollback ends in one of the two modes and tells the tray which.
LEMMA RollbackModeLemma ==
  ASSUME NEW b, WellFormed(b), NEW t, TrayOK(t), NEW m \in Modes,
         NEW x \in RollbackMode(b, t, m)
  PROVE  /\ x.ok = FALSE /\ Kept(b, t, x.b, x.t) /\ InStep(x.b, x.t)
         /\ x.b.mode \in {b.mode, m}
<1>1. PICK r \in CoordinatorSetMode(b, m) :
        x \in {[ok |-> FALSE, b |-> r.b, t |-> s.t] : s \in SyncTray(t, r.b.mode)}
  BY DEF RollbackMode
<1>2. /\ r.ok \in BOOLEAN /\ WellFormed(r.b) /\ (r.ok => r.b.mode = m)
      /\ (~r.ok => r.b.mode = b.mode) /\ (Consistent(b) => Consistent(r.b))
      /\ (Tidy(b) => Tidy(r.b))
  BY CoordinatorSetModeLemma
<1>3. r.b.mode \in Modes
  BY <1>2 DEF WellFormed, BlockerType
<1>4. PICK s \in SyncTray(t, r.b.mode) : x = [ok |-> FALSE, b |-> r.b, t |-> s.t]
  BY <1>1
<1>5. TrayOK(s.t) /\ s.t.alive = t.alive /\ (s.t.alive => LastMode(s.t) = r.b.mode)
  BY <1>3, SyncTrayLemma
<1>6. x.ok = FALSE /\ x.b = r.b /\ x.t = s.t
  BY <1>4
<1> QED
  BY <1>2, <1>5, <1>6 DEF Kept, InStep

\* set_mode of the application: success means the requested mode, failure one of the two;
\* a tray that was in step stays in step on every path.
LEMMA ApplicationSetModeLemma ==
  ASSUME NEW b, WellFormed(b), NEW t, TrayOK(t), NEW m \in Modes,
         NEW x \in ApplicationSetMode(b, t, m)
  PROVE  /\ x.ok \in BOOLEAN /\ Kept(b, t, x.b, x.t)
         /\ InStep(b, t) => InStep(x.b, x.t)
         /\ x.ok => x.b.mode = m
         /\ x.b.mode \in {b.mode, m}
<1>1. CASE b.mode = m
  <2>1. PICK s \in SyncTray(t, m) : x = [ok |-> s.ok, b |-> b, t |-> s.t]
    BY <1>1 DEF ApplicationSetMode
  <2>2. s.ok \in BOOLEAN /\ TrayOK(s.t) /\ s.t.alive = t.alive
        /\ (s.t.alive => LastMode(s.t) = m)
    BY SyncTrayLemma
  <2>3. x.ok = s.ok /\ x.b = b /\ x.t = s.t
    BY <2>1
  <2> QED
    BY <1>1, <2>2, <2>3 DEF Kept, InStep
<1>2. CASE b.mode # m
  <2>1. PICK r \in CoordinatorSetMode(b, m) :
          x \in IF r.ok
                THEN UNION {IF s.ok THEN {[ok |-> TRUE, b |-> r.b, t |-> s.t]}
                                    ELSE RollbackMode(r.b, s.t, b.mode) :
                              s \in SyncTray(t, m)}
                ELSE {[ok |-> FALSE, b |-> r.b, t |-> t]}
    BY <1>2 DEF ApplicationSetMode
  <2>2. /\ r.ok \in BOOLEAN /\ WellFormed(r.b) /\ (r.ok => r.b.mode = m)
        /\ (~r.ok => r.b.mode = b.mode) /\ (Consistent(b) => Consistent(r.b))
        /\ (Tidy(b) => Tidy(r.b))
    BY CoordinatorSetModeLemma
  <2>3. CASE ~r.ok
    <3>1. x.ok = FALSE /\ x.b = r.b /\ x.t = t
      BY <2>1, <2>3
    <3> QED
      BY <2>2, <2>3, <3>1, Zenon DEF Kept, InStep
  <2>4. CASE r.ok
    <3>1. PICK s \in SyncTray(t, m) :
            x \in IF s.ok THEN {[ok |-> TRUE, b |-> r.b, t |-> s.t]}
                          ELSE RollbackMode(r.b, s.t, b.mode)
      BY <2>1, <2>4
    <3>2. s.ok \in BOOLEAN /\ TrayOK(s.t) /\ s.t.alive = t.alive
          /\ (s.t.alive => LastMode(s.t) = m)
      BY SyncTrayLemma
    <3>3. CASE s.ok
      <4>1. x.ok = TRUE /\ x.b = r.b /\ x.t = s.t
        BY <3>1, <3>3
      <4> QED
        BY <2>2, <2>4, <3>2, <4>1, Zenon DEF Kept, InStep
    <3>4. CASE ~s.ok
      <4>1. b.mode \in Modes
        BY DEF WellFormed, BlockerType
      <4>2. /\ x.ok = FALSE /\ Kept(r.b, s.t, x.b, x.t) /\ InStep(x.b, x.t)
            /\ x.b.mode \in {r.b.mode, b.mode}
        BY <2>2, <3>1, <3>2, <3>4, <4>1, RollbackModeLemma, Zenon
      <4> QED
        BY <2>2, <2>4, <3>2, <4>2, Zenon DEF Kept
    <3> QED
      BY <3>3, <3>4, <3>2
  <2> QED
    BY <2>2, <2>3, <2>4
<1> QED
  BY <1>1, <1>2

\* A tray power action ends in Allow, with the restore its policy asks for, or fails with
\* none queued; from Allow it never leaves Allow.
LEMMA RunPowerActionLemma ==
  ASSUME NEW b, WellFormed(b), NEW t, TrayOK(t), NEW a, NEW x \in RunPowerAction(b, t, a)
  PROVE  /\ x.ok \in BOOLEAN /\ Kept(b, t, x.b, x.t)
         /\ InStep(b, t) => InStep(x.b, x.t)
         /\ b.mode = "Allow" => x.b.mode = "Allow"
         /\ x.ok => x.b.mode = "Allow" /\ x.pending = PendingRestoreFor(b.mode, a)
         /\ ~x.ok => x.pending = NoRestore
<1>0. "Allow" \in Modes /\ "Block" \in Modes
  BY DEF Modes
<1>1. PICK r \in ApplicationSetMode(b, t, "Allow") :
        x \in IF r.ok
              THEN {[ok |-> TRUE, b |-> r.b, t |-> r.t, pending |-> PendingRestoreFor(b.mode, a)]}
                   \cup RestoreAfterFailedAction(r, b.mode)
              ELSE {[ok |-> FALSE, b |-> r.b, t |-> r.t, pending |-> NoRestore]}
  BY DEF RunPowerAction
<1>2. /\ r.ok \in BOOLEAN /\ Kept(b, t, r.b, r.t) /\ (InStep(b, t) => InStep(r.b, r.t))
      /\ (r.ok => r.b.mode = "Allow") /\ r.b.mode \in {b.mode, "Allow"}
  BY <1>0, ApplicationSetModeLemma
<1>3. CASE ~r.ok
  <2>1. x.ok = FALSE /\ x.b = r.b /\ x.t = r.t /\ x.pending = NoRestore
    BY <1>1, <1>3
  <2> QED
    BY <1>2, <2>1, Zenon
<1>4. CASE r.ok /\ x \in RestoreAfterFailedAction(r, b.mode)
  <2>1. CASE b.mode = "Block"
    <3>1. PICK y \in ApplicationSetMode(r.b, r.t, "Block") :
            x = [ok |-> FALSE, b |-> y.b, t |-> y.t, pending |-> NoRestore]
      BY <1>4, <2>1 DEF RestoreAfterFailedAction
    <3>2. Kept(r.b, r.t, y.b, y.t) /\ (InStep(r.b, r.t) => InStep(y.b, y.t))
      <4>1. WellFormed(r.b) /\ TrayOK(r.t)
        BY <1>2 DEF Kept
      <4> QED
        BY <4>1, <1>0, ApplicationSetModeLemma
    <3>3. x.ok = FALSE /\ x.b = y.b /\ x.t = y.t /\ x.pending = NoRestore
      BY <3>1
    <3> QED
      BY <1>2, <2>1, <3>2, <3>3, Zenon DEF Kept
  <2>2. CASE b.mode # "Block"
    <3>1. x.ok = FALSE /\ x.b = r.b /\ x.t = r.t /\ x.pending = NoRestore
      BY <1>4, <2>2 DEF RestoreAfterFailedAction
    <3> QED
      BY <1>2, <1>4, <3>1, Zenon
  <2> QED
    BY <2>1, <2>2
<1>5. CASE r.ok /\ x \notin RestoreAfterFailedAction(r, b.mode)
  <2>1. x.ok = TRUE /\ x.b = r.b /\ x.t = r.t /\ x.pending = PendingRestoreFor(b.mode, a)
    BY <1>1, <1>5
  <2> QED
    BY <1>2, <1>5, <2>1, Zenon
<1> QED
  BY <1>2, <1>3, <1>4, <1>5

\* The restore after wake never leaves Block and keeps the tray in step.
LEMMA RestoreBlockAfterWakeLemma ==
  ASSUME NEW b, WellFormed(b), NEW t, TrayOK(t), NEW x \in RestoreBlockAfterWake(b, t)
  PROVE  /\ Kept(b, t, x.b, x.t) /\ (InStep(b, t) => InStep(x.b, x.t))
         /\ b.mode = "Block" => x.b.mode = "Block"
<1>1. PICK r \in CoordinatorSetMode(b, "Block") :
        x \in IF r.ok THEN {[b |-> r.b, t |-> s.t] : s \in SyncTray(t, r.b.mode)}
                      ELSE {[b |-> r.b, t |-> t]}
  BY DEF RestoreBlockAfterWake
<1>2. /\ r.ok \in BOOLEAN /\ WellFormed(r.b) /\ (r.ok => r.b.mode = "Block")
      /\ (~r.ok => r.b.mode = b.mode) /\ (Consistent(b) => Consistent(r.b))
      /\ (Tidy(b) => Tidy(r.b))
  BY CoordinatorSetModeLemma DEF Modes
<1>3. CASE ~r.ok
  <2>1. x.b = r.b /\ x.t = t
    BY <1>1, <1>3
  <2> QED
    BY <1>2, <1>3, <2>1 DEF Kept, InStep
<1>4. CASE r.ok
  <2>1. PICK s \in SyncTray(t, r.b.mode) : x = [b |-> r.b, t |-> s.t]
    BY <1>1, <1>4
  <2>2. TrayOK(s.t) /\ s.t.alive = t.alive /\ (s.t.alive => LastMode(s.t) = r.b.mode)
    BY <1>2, <1>4, SyncTrayLemma DEF Modes
  <2>3. x.b = r.b /\ x.t = s.t
    BY <2>1
  <2> QED
    BY <1>2, <1>4, <2>2, <2>3 DEF Kept, InStep
<1> QED
  BY <1>2, <1>3, <1>4

\* The destructors leave nothing behind, whatever state they find.
LEMMA DropCoordinatorLemma ==
  ASSUME NEW b, WellFormed(b)
  PROVE  LET c == DropCoordinator(b) IN WellFormed(c) /\ Released(c) /\ c.mode = b.mode
<1> DEFINE e == DeactivateOtherLayers(b)
<1>1. WellFormed(e) /\ SameLayer1(b, e) /\ LayersOff(e)
  BY DeactivateOtherLayersLemma
<1> HIDE DEF e
<1> DEFINE c == [e EXCEPT !.reason = FALSE, !.veto = FALSE]
<1>2. DropCoordinator(b) = c
  BY DEF DropCoordinator, e
<1>3. WellFormed(c) /\ ~c.reason /\ ~c.veto /\ c.mode = e.mode
  BY <1>1, Zenon DEF WellFormed, Owned, BlockerType
<1>4. LayersOff(c)
  BY <1>1 DEF WellFormed, BlockerType, LayersOff
<1> HIDE DEF c
<1> QED
  BY <1>1, <1>2, <1>3, <1>4 DEF Released, SameLayer1

\* The forced cleanup keeps the bookkeeping of the workers it signals but does not join.
LEMMA ForcedShutdownCleanupLemma ==
  ASSUME NEW b, WellFormed(b)
  PROVE  LET c == ForcedShutdownCleanup(b) IN
         WellFormed(c) /\ c.mode = "Allow" /\ c.veto = b.veto
<1>1. ASSUME NEW e, WellFormed(e), NEW l \in Background
      PROVE  LET c == BeginForcedCleanup(e, l) IN WellFormed(c) /\ c.veto = e.veto
  BY <1>1, ZenonT(60) DEF BeginForcedCleanup, WellFormed, Owned, BlockerType, Threads
<1> DEFINE c1 == BeginForcedCleanup(b, "update")
           c2 == SleepDeactivate(c1)
           c3 == BeginForcedCleanup(c2, "remote")
<1>2. WellFormed(c1) /\ c1.veto = b.veto
  BY <1>1 DEF Background
<1> HIDE DEF c1
<1>3. WellFormed(c2) /\ c2.veto = b.veto
  BY <1>2, Zenon DEF SleepDeactivate, WellFormed, Owned, BlockerType
<1> HIDE DEF c2
<1>4. WellFormed(c3) /\ c3.veto = b.veto
  BY <1>1, <1>3 DEF Background
<1> HIDE DEF c3
<1>5. ForcedShutdownCleanup(b) = [c3 EXCEPT !.mode = "Allow"]
  BY DEF ForcedShutdownCleanup, c1, c2, c3
<1> QED
  BY <1>4, <1>5 DEF WellFormed, Owned, BlockerType, Modes
-----------------------------------------------------------------------------
(***************************************************************************)
(* The inductive invariant.  The properties are not inductive by           *)
(* themselves: a join releases a layer only if no thread runs without its  *)
(* worker (Owned), a tray timeout is possible only for a tray that exists, *)
(* and startup relies on the state before it.                              *)
(***************************************************************************)
BeforeStartup == blk = BlockerOff /\ pending = NoRestore /\ ~ended /\ ~tray.alive

IInv ==
  /\ TypeOK
  /\ Owned(blk)
  /\ tray.alive => surface # "Headless"
  /\ AllowMeansReleased
  /\ BlockMeansVeto
  /\ TrayFollowsMode
  /\ PendingIsOwed
  /\ phase = "boot" => BeforeStartup

\* The part of the invariant that the coordinator, the tray and the session decide.
CoreInv ==
  /\ blk \in BlockerType /\ Owned(blk)
  /\ tray \in TrayType /\ Len(tray.cmds) <= MaxTrayBacklog
  /\ tray.alive => surface # "Headless"
  /\ AllowMeansReleased /\ BlockMeansVeto /\ TrayFollowsMode

\* A well-formed coordinator with every layer off is where the process begins.
LEMMA BlockerOffLemma == WellFormed(BlockerOff) /\ Released(BlockerOff) /\ BlockerOff.mode = "Allow"
  BY DEF BlockerOff, WellFormed, Owned, BlockerType, Released, LayersOff, Modes, Threads

\* The initial state satisfies the invariant.
LEMMA InitIInv == Init => IInv
<1> SUFFICES ASSUME Init PROVE IInv
  OBVIOUS
<1> USE DEF Init
<1>1. WellFormed(blk) /\ Released(blk) /\ blk.mode = "Allow"
  BY BlockerOffLemma
<1>2. /\ tray.alive = FALSE /\ tray.mode = "Block" /\ tray.cmds = << >>
      /\ tray \in TrayType /\ Len(tray.cmds) <= MaxTrayBacklog
  <2>1. << >> \in Seq(Modes) /\ Len(<< >>) = 0
    OBVIOUS
  <2> QED
    BY <2>1, BacklogAssumption DEF TrayType, Modes
<1>3. TypeOK
  BY <1>1, <1>2, Zenon DEF TypeOK, WellFormed, Surfaces, PendingType, NoReply
<1>4. AllowMeansReleased /\ BlockMeansVeto
  BY <1>1 DEF AllowMeansReleased, BlockMeansVeto, Released, LayersOff
<1> QED
  BY <1>1, <1>2, <1>3, <1>4 DEF IInv, WellFormed, TrayFollowsMode, PendingIsOwed, BeforeStartup

\* Before the end of the session, the invariant says that mode and layers are consistent.
LEMMA IInvFacts ==
  ASSUME IInv
  PROVE  /\ WellFormed(blk) /\ TrayOK(tray)
         /\ ~ended /\ phase # "stopped" => Consistent(blk)
         /\ ~ended /\ phase \in {"booted", "running"} => InStep(blk, tray)
  BY DEF IInv, TypeOK, WellFormed, TrayOK, AllowMeansReleased, BlockMeansVeto,
         TrayFollowsMode, Consistent, Released, LayersOff, InStep

\* A step of a handler that keeps what the lemmas above promise keeps the core invariant.
LEMMA HandlerStep ==
  ASSUME IInv, phase \in {"booted", "running"},
         Kept(blk, tray, blk', tray'), InStep(blk, tray) => InStep(blk', tray'),
         phase' = phase, surface' = surface, ended' = ended
  PROVE  CoreInv'
<1>1. /\ WellFormed(blk) /\ TrayOK(tray)
      /\ ~ended => Consistent(blk) /\ InStep(blk, tray)
  BY IInvFacts
<1>2. /\ WellFormed(blk') /\ tray' \in TrayType /\ Len(tray'.cmds) <= MaxTrayBacklog
      /\ tray'.alive => surface' # "Headless"
  BY DEF Kept, TrayOK
<1>3. ~ended' => Consistent(blk') /\ InStep(blk', tray')
  BY <1>1 DEF Kept
<1>4. AllowMeansReleased' /\ BlockMeansVeto'
  BY <1>3 DEF AllowMeansReleased, BlockMeansVeto, Consistent, Released, LayersOff
<1>5. TrayFollowsMode'
  BY <1>3 DEF TrayFollowsMode, InStep
<1> QED
  BY <1>2, <1>4, <1>5 DEF CoreInv, WellFormed

\* Starting the process establishes the core invariant, and a failed start leaves nothing.
LEMMA BootstrapStep ==
  ASSUME IInv, Bootstrap
  PROVE  IInv'
<1>1. phase = "boot" /\ BeforeStartup
  BY DEF IInv, Bootstrap
<1>2. PICK o \in RuntimeOptions : \E c \in CoordinatorSetMode(BlockerOff, o.initial_mode) :
         \/ /\ c.ok
            /\ phase' = "booted"
            /\ surface' = o.tray_surface
            /\ blk' = c.b
            /\ tray' = [alive |-> o.tray_surface # "Headless", mode |-> c.b.mode, cmds |-> << >>]
         \/ /\ phase' = "stopped"
            /\ blk' = DropCoordinator(c.b)
            /\ UNCHANGED <<surface, tray>>
  BY DEF Bootstrap
<1>3. PICK c \in CoordinatorSetMode(BlockerOff, o.initial_mode) :
         \/ /\ c.ok
            /\ phase' = "booted"
            /\ surface' = o.tray_surface
            /\ blk' = c.b
            /\ tray' = [alive |-> o.tray_surface # "Headless", mode |-> c.b.mode, cmds |-> << >>]
         \/ /\ phase' = "stopped"
            /\ blk' = DropCoordinator(c.b)
            /\ UNCHANGED <<surface, tray>>
  BY <1>2
<1>4. o.initial_mode \in Modes /\ o.tray_surface \in Surfaces
  BY DEF RuntimeOptions, Modes, Surfaces
<1>5. WellFormed(c.b) /\ Consistent(c.b) /\ c.b.mode \in Modes
  <2>1. Consistent(BlockerOff)
    BY BlockerOffLemma DEF Consistent
  <2>2. WellFormed(c.b) /\ Consistent(c.b)
    BY <1>4, <2>1, BlockerOffLemma, CoordinatorSetModeLemma
  <2> QED
    BY <2>2 DEF WellFormed, BlockerType
<1>6. UNCHANGED <<pending, forced, cleanupStarted, ended, owed, reply>>
  BY DEF Bootstrap
<1>7. /\ pending' \in PendingType /\ forced' \in BOOLEAN /\ cleanupStarted' \in BOOLEAN
      /\ ended' \in BOOLEAN /\ owed' \in BOOLEAN /\ PendingIsOwed'
      /\ reply' \in [to : Modes \cup {"None", "Power", "Query"}, ok : BOOLEAN]
  BY <1>1, <1>6, Zenon DEF IInv, TypeOK, PendingIsOwed, BeforeStartup
<1>8. CASE phase' = "booted"
  <2>1. /\ surface' = o.tray_surface /\ blk' = c.b
        /\ tray' = [alive |-> o.tray_surface # "Headless", mode |-> c.b.mode, cmds |-> << >>]
    BY <1>3, <1>8
  <2>2. << >> \in Seq(Modes) /\ Len(<< >>) = 0
    OBVIOUS
  <2>3. /\ tray' \in TrayType /\ tray'.mode = c.b.mode /\ tray'.cmds = << >>
        /\ tray'.alive => surface' # "Headless"
    BY <1>5, <2>1, <2>2, Zenon DEF TrayType
  <2>4. TypeOK'
    BY <1>4, <1>5, <1>7, <1>8, <2>1, <2>2, <2>3, BacklogAssumption DEF TypeOK, WellFormed
  <2>5. AllowMeansReleased' /\ BlockMeansVeto'
    BY <1>5, <1>8, <2>1, Zenon DEF AllowMeansReleased, BlockMeansVeto, Consistent, Released, LayersOff
  <2>6. TrayFollowsMode'
    BY <2>1, <2>3 DEF TrayFollowsMode, LastMode
  <2> QED
    BY <1>5, <1>7, <1>8, <2>1, <2>3, <2>4, <2>5, <2>6, Zenon DEF IInv, WellFormed
<1>9. CASE phase' = "stopped"
  <2>1. blk' = DropCoordinator(c.b) /\ UNCHANGED <<surface, tray>>
    BY <1>3, <1>9
  <2>2. WellFormed(blk') /\ Released(blk')
    BY <1>5, <2>1, DropCoordinatorLemma
  <2>3. TypeOK'
    BY <1>7, <1>9, <2>1, <2>2 DEF IInv, TypeOK, WellFormed
  <2>4. AllowMeansReleased' /\ BlockMeansVeto' /\ TrayFollowsMode'
    BY <1>9, <2>2, Zenon DEF AllowMeansReleased, BlockMeansVeto, TrayFollowsMode, Released, LayersOff
  <2> QED
    BY <1>7, <1>9, <2>1, <2>2, <2>3, <2>4 DEF IInv, WellFormed
<1> QED
  BY <1>3, <1>8, <1>9

\* An explicit mode request keeps the invariant; it leaves one of the two modes.
LEMMA RequestModeStep ==
  ASSUME IInv, NEW m \in Modes, RequestMode(m)
  PROVE  IInv' /\ blk'.mode \in {blk.mode, m}
<1>1. PICK r \in ApplicationSetMode(blk, tray, m) :
        blk' = r.b /\ tray' = r.t /\ reply' = [to |-> m, ok |-> r.ok]
  BY DEF RequestMode
<1>2. /\ r.ok \in BOOLEAN /\ Kept(blk, tray, blk', tray')
      /\ InStep(blk, tray) => InStep(blk', tray')
      /\ blk'.mode \in {blk.mode, m}
  BY <1>1, IInvFacts, ApplicationSetModeLemma, Zenon
<1>3. CoreInv'
  BY <1>2, HandlerStep DEF RequestMode
<1>4. TypeOK'
  BY <1>1, <1>2, <1>3, ZenonT(30) DEF CoreInv, IInv, TypeOK, RequestMode, PendingType
<1> QED
  BY <1>2, <1>3, <1>4 DEF CoreInv, IInv, RequestMode, PendingIsOwed

\* A tray power action keeps the invariant: a restore is queued only for a suspend that
\* left Block, which is when one is owed.
LEMMA TrayPowerActionStep ==
  ASSUME IInv, NEW a \in PowerActions, TrayPowerAction(a)
  PROVE  IInv' /\ (blk.mode = "Allow" => blk'.mode = "Allow")
<1>1. PICK r \in RunPowerAction(blk, tray, a) :
        /\ blk' = r.b /\ tray' = r.t /\ pending' = r.pending
        /\ reply' = [to |-> "Power", ok |-> r.ok]
        /\ owed' = (a \in Suspends /\ IF blk.mode = "Block" THEN r.ok ELSE owed)
  BY Zenon DEF TrayPowerAction
<1>2. /\ r.ok \in BOOLEAN /\ Kept(blk, tray, blk', tray')
      /\ InStep(blk, tray) => InStep(blk', tray')
      /\ blk.mode = "Allow" => blk'.mode = "Allow"
      /\ r.ok => blk'.mode = "Allow" /\ pending' = PendingRestoreFor(blk.mode, a)
      /\ ~r.ok => pending' = NoRestore
  BY <1>1, IInvFacts, RunPowerActionLemma, ZenonT(30)
<1>3. CoreInv'
  BY <1>2, HandlerStep DEF TrayPowerAction
<1>4. pending' \in PendingType
  BY <1>2, SMTT(20) DEF PendingRestoreFor, PendingSuspend, PendingType
<1>5. owed' \in BOOLEAN
  BY <1>1, <1>2, Zenon DEF IInv, TypeOK
<1>6. TypeOK'
  BY <1>1, <1>2, <1>3, <1>4, <1>5, Zenon DEF CoreInv, IInv, TypeOK, TrayPowerAction
<1>7. PendingIsOwed'
  BY <1>1, <1>2, Zenon DEF PendingIsOwed, PendingRestoreFor
<1> QED
  BY <1>2, <1>3, <1>6, <1>7 DEF CoreInv, IInv, TrayPowerAction

\* A resume keeps the invariant; it never leaves Block.
LEMMA PowerResumeStep ==
  ASSUME IInv, PowerResume
  PROVE  IInv' /\ (blk.mode = "Block" => blk'.mode = "Block")
               /\ (pending = NoRestore => blk'.mode = blk.mode)
<1>1. PICK b \in RenewSleepRequests(blk) :
        IF pending = NoRestore
        THEN blk' = b /\ tray' = tray
        ELSE \E r \in RestoreBlockAfterWake(b, tray) : blk' = r.b /\ tray' = r.t
  BY DEF PowerResume
<1>2. /\ WellFormed(b) /\ SameLayer1(blk, b) /\ (Consistent(blk) => Consistent(b))
      /\ (Tidy(blk) => Tidy(b))
  <2>1. WellFormed(blk)
    BY IInvFacts
  <2>2. CASE blk.mode = "Block"
    <3>1. PICK renewed \in BOOLEAN : b = [blk EXCEPT !.sleep = renewed]
      BY <2>2 DEF RenewSleepRequests
    <3> QED
      BY <2>1, <2>2, <3>1 DEF WellFormed, Owned, BlockerType, SameLayer1, Consistent, Tidy
  <2>3. CASE blk.mode # "Block"
    <3>1. b = blk
      BY <2>3 DEF RenewSleepRequests
    <3> QED
      BY <2>1, <3>1 DEF SameLayer1
  <2> QED
    BY <2>2, <2>3
<1>3. TrayOK(tray)
  BY IInvFacts
<1>4. /\ Kept(b, tray, blk', tray') /\ (InStep(b, tray) => InStep(blk', tray'))
      /\ b.mode = "Block" => blk'.mode = "Block"
      /\ pending = NoRestore => blk'.mode = b.mode
  <2>1. CASE pending = NoRestore
    BY <1>1, <1>2, <1>3, <2>1, Zenon DEF Kept
  <2>2. CASE pending # NoRestore
    <3>1. PICK r \in RestoreBlockAfterWake(b, tray) : blk' = r.b /\ tray' = r.t
      BY <1>1, <2>2
    <3> QED
      BY <1>2, <1>3, <2>2, <3>1, RestoreBlockAfterWakeLemma
  <2> QED
    BY <2>1, <2>2, Zenon
<1>5. Kept(blk, tray, blk', tray') /\ (InStep(blk, tray) => InStep(blk', tray'))
  BY <1>2, <1>4 DEF Kept, InStep, SameLayer1
<1>6. CoreInv'
  BY <1>5, HandlerStep DEF PowerResume
<1>7. reply' \in [to : Modes \cup {"None", "Power", "Query"}, ok : BOOLEAN]
  BY DEF PowerResume, NoReply
<1>8. TypeOK'
  BY <1>6, <1>7, Zenon DEF CoreInv, IInv, TypeOK, PowerResume, PendingType
<1> QED
  BY <1>2, <1>4, <1>6, <1>8, Zenon DEF CoreInv, IInv, PowerResume, PendingIsOwed, SameLayer1

\* WM_ENDSESSION keeps the invariant; it always lifts the veto.
LEMMA EndSessionStep ==
  ASSUME IInv, EndSession
  PROVE  /\ IInv' /\ ended' /\ ~blk'.veto /\ phase' = phase
         /\ blk'.mode \in {blk.mode, "Allow"}
<1> DEFINE b == [blk EXCEPT !.veto = FALSE]
<1>1. WellFormed(b) /\ ~b.veto /\ b.mode = blk.mode
  BY IInvFacts, Zenon DEF WellFormed, Owned, BlockerType
<1> HIDE DEF b
<1>2. \/ /\ forced' = TRUE /\ pending' = NoRestore /\ owed' = FALSE
         /\ blk' = ForcedShutdownCleanup(b)
      \/ blk' = b /\ UNCHANGED <<forced, pending, owed>>
  BY DEF EndSession, b
<1>3. WellFormed(blk') /\ ~blk'.veto /\ blk'.mode \in {blk.mode, "Allow"}
  BY <1>1, <1>2, ForcedShutdownCleanupLemma
<1>4. /\ phase' = phase /\ phase \in {"booted", "running"} /\ ended' = TRUE
      /\ cleanupStarted' = TRUE /\ reply' = NoReply /\ UNCHANGED <<surface, tray>>
  BY DEF EndSession
<1>5. TypeOK'
  <2>1. reply' \in [to : Modes \cup {"None", "Power", "Query"}, ok : BOOLEAN]
    BY <1>4 DEF NoReply
  <2> QED
    BY <2>1, <1>2, <1>3, <1>4, Zenon DEF IInv, TypeOK, WellFormed, PendingType
<1>6. PendingIsOwed'
  BY <1>1, <1>2 DEF IInv, PendingIsOwed
<1>7. AllowMeansReleased' /\ BlockMeansVeto' /\ TrayFollowsMode'
  BY <1>4 DEF AllowMeansReleased, BlockMeansVeto, TrayFollowsMode
<1> QED
  BY <1>3, <1>4, <1>5, <1>6, <1>7 DEF IInv, WellFormed

\* An orderly exit keeps the invariant and releases everything.
LEMMA ShutdownStep ==
  ASSUME IInv, Shutdown
  PROVE  IInv'
<1>1. PICK r \in CoordinatorSetMode(blk, "Allow") : blk' = DropCoordinator(r.b)
  BY DEF Shutdown
<1>2. WellFormed(r.b) /\ r.b.mode \in {blk.mode, "Allow"}
  BY IInvFacts, CoordinatorSetModeLemma DEF Modes
<1>3. WellFormed(blk') /\ Released(blk') /\ blk'.mode = r.b.mode
  BY <1>1, <1>2, DropCoordinatorLemma
<1>4. /\ phase' = "stopped" /\ cleanupStarted' = FALSE /\ reply' = NoReply
      /\ tray' = [tray EXCEPT !.alive = FALSE, !.cmds = << >>]
      /\ UNCHANGED <<surface, pending, forced, ended, owed>>
  BY DEF Shutdown
<1>5. tray' \in TrayType /\ ~tray'.alive /\ Len(tray'.cmds) <= MaxTrayBacklog
  <2>1. << >> \in Seq(Modes) /\ Len(<< >>) = 0
    OBVIOUS
  <2>2. tray' \in TrayType /\ ~tray'.alive /\ tray'.cmds = << >>
    BY <1>4, <2>1, Zenon DEF IInv, TypeOK, TrayType
  <2> QED
    BY <2>1, <2>2, BacklogAssumption
<1>6. TypeOK'
  <2>1. reply' \in [to : Modes \cup {"None", "Power", "Query"}, ok : BOOLEAN]
    BY <1>4 DEF NoReply
  <2> QED
    BY <2>1, <1>3, <1>4, <1>5, Zenon DEF IInv, TypeOK, WellFormed
<1>7. AllowMeansReleased' /\ BlockMeansVeto' /\ TrayFollowsMode'
  BY <1>3, <1>4 DEF AllowMeansReleased, BlockMeansVeto, TrayFollowsMode, Released, LayersOff
<1>8. PendingIsOwed'
  BY <1>2, <1>3, <1>4 DEF IInv, PendingIsOwed
<1> QED
  BY <1>3, <1>4, <1>5, <1>6, <1>7, <1>8 DEF IInv, WellFormed

\* A worker thread changes only its own thread state, flag and stop, and only while its
\* layer keeps a worker.
LEMMA ThreadStep ==
  ASSUME IInv, NEW l \in Background, ThreadStarts(l) \/ ThreadStops(l) \/ ThreadFails(l)
  PROVE  IInv' /\ SameLayer1(blk, blk')
               /\ UNCHANGED <<phase, surface, tray, pending, forced, cleanupStarted,
                              ended, owed, reply>>
<1>1. UNCHANGED <<phase, surface, tray, pending, forced, cleanupStarted, ended, owed, reply>>
  BY DEF ThreadStarts, ThreadStops, ThreadFails, ThreadReturns
<1>2. blk.thread[l] # "none"
  BY DEF ThreadStarts, ThreadStops, ThreadFails
<1>3. \/ blk' = [blk EXCEPT !.thread[l] = "running", !.active[l] = TRUE]
      \/ blk' = [blk EXCEPT !.thread[l] = "none", !.stopping[l] = FALSE, !.active[l] = FALSE]
  BY Zenon DEF ThreadStarts, ThreadStops, ThreadFails, ThreadReturns
<1>4. WellFormed(blk) /\ blk.worker[l]
  BY <1>2, IInvFacts DEF WellFormed, Owned
<1>5. WellFormed(blk') /\ SameLayer1(blk, blk')
  <2>1. CASE blk' = [blk EXCEPT !.thread[l] = "running", !.active[l] = TRUE]
    BY <2>1, <1>4, Zenon DEF WellFormed, Owned, BlockerType, SameLayer1, Threads
  <2>2. CASE blk' = [blk EXCEPT !.thread[l] = "none", !.stopping[l] = FALSE, !.active[l] = FALSE]
    BY <2>2, <1>4, Zenon DEF WellFormed, Owned, BlockerType, SameLayer1, Threads
  <2> QED
    BY <1>3, <2>1, <2>2
<1>6. ~((blk.mode = "Allow" /\ ~ended) \/ phase = "stopped")
  BY <1>4 DEF IInv, AllowMeansReleased, Released, LayersOff
<1>7. phase # "boot"
  BY <1>4 DEF IInv, BeforeStartup, BlockerOff
<1>8. TypeOK'
  BY <1>1, <1>5, Zenon DEF IInv, TypeOK, WellFormed
<1>9. AllowMeansReleased' /\ BlockMeansVeto' /\ TrayFollowsMode' /\ PendingIsOwed'
  BY <1>1, <1>5, <1>6, Zenon DEF IInv, AllowMeansReleased, BlockMeansVeto, TrayFollowsMode,
     PendingIsOwed, SameLayer1
<1> QED
  BY <1>1, <1>5, <1>7, <1>8, <1>9 DEF IInv, WellFormed

\* Removing the head of a queue leaves its last element, or was that element.
LEMMA TailKeepsLast ==
  ASSUME NEW S, NEW q \in Seq(S), q # << >>
  PROVE  IF Tail(q) = << >> THEN Head(q) = q[Len(q)] ELSE Tail(q)[Len(Tail(q))] = q[Len(q)]
<1> DEFINE n == Len(Tail(q))
<1>1. /\ Tail(q) \in Seq(S) /\ n = Len(q) - 1
      /\ \A i \in 1 .. n : Tail(q)[i] = q[i + 1]
  OBVIOUS
<1>2. Len(q) \in Nat \ {0} /\ Len(<< >>) = 0
  OBVIOUS
<1>3. CASE Tail(q) = << >>
  <2>0. n = 0
    BY <1>2, <1>3, Zenon
  <2> HIDE DEF n
  <2>1. Len(q) = 1
    BY <1>1, <1>2, <2>0
  <2> QED
    BY <1>3, <2>1
<1>4. CASE Tail(q) # << >>
  <2>1. n \in Nat \ {0}
    BY <1>1, <1>4
  <2> HIDE DEF n
  <2>2. n \in 1 .. n /\ n + 1 = Len(q)
    BY <1>1, <1>2, <2>1
  <2>3. Tail(q)[n] = q[n + 1]
    BY <1>1, <2>2
  <2> QED
    BY <1>4, <2>2, <2>3 DEF n
<1> QED
  BY <1>3, <1>4

\* The tray thread handles its commands in order, so the last one stays the last.
LEMMA TrayThreadStep ==
  ASSUME IInv, TrayThreadHandlesCommand \/ TrayThreadDies
  PROVE  IInv' /\ UNCHANGED <<phase, surface, blk, pending, forced, cleanupStarted,
                              ended, owed, reply>>
<1>1. UNCHANGED <<phase, surface, blk, pending, forced, cleanupStarted, ended, owed, reply>>
  BY DEF TrayThreadHandlesCommand, TrayThreadDies
<1>2. tray \in TrayType /\ tray.alive /\ surface # "Headless" /\ tray.cmds \in Seq(Modes)
  BY DEF IInv, TypeOK, TrayType, TrayThreadHandlesCommand, TrayThreadDies
<1>3. /\ tray' \in TrayType /\ Len(tray'.cmds) <= MaxTrayBacklog
      /\ tray'.alive => LastMode(tray') = LastMode(tray)
  <2>1. CASE TrayThreadHandlesCommand
    <3> DEFINE q == tray.cmds
    <3>1. q # << >> /\ tray' = [tray EXCEPT !.mode = Head(q), !.cmds = Tail(q)]
      BY <2>1 DEF TrayThreadHandlesCommand
    <3>2. /\ Head(q) \in Modes /\ Tail(q) \in Seq(Modes) /\ Len(q) \in Nat \ {0}
          /\ Len(Tail(q)) = Len(q) - 1
      BY <1>2, <3>1
    <3>3. /\ tray' \in TrayType /\ tray'.mode = Head(q) /\ tray'.cmds = Tail(q)
      BY <1>2, <3>1, <3>2, Zenon DEF TrayType
    <3>4. Len(q) <= MaxTrayBacklog
      BY DEF IInv, TypeOK
    <3>5. LastMode(tray') = LastMode(tray)
      BY <1>2, <3>1, <3>3, TailKeepsLast, Zenon DEF LastMode
    <3> QED
      BY <3>2, <3>3, <3>4, <3>5, BacklogAssumption
  <2>2. CASE TrayThreadDies
    <3>1. << >> \in Seq(Modes) /\ Len(<< >>) = 0
      OBVIOUS
    <3>2. tray' \in TrayType /\ ~tray'.alive /\ tray'.cmds = << >>
      BY <1>2, <2>2, <3>1, Zenon DEF TrayThreadDies, TrayType
    <3> QED
      BY <3>1, <3>2, BacklogAssumption
  <2> QED
    BY <2>1, <2>2
<1>4. TypeOK'
  BY <1>1, <1>3, Zenon DEF IInv, TypeOK
<1>5. AllowMeansReleased' /\ BlockMeansVeto' /\ PendingIsOwed' /\ Owned(blk')
  BY <1>1 DEF IInv, AllowMeansReleased, BlockMeansVeto, PendingIsOwed
<1>6. TrayFollowsMode'
  BY <1>1, <1>2, <1>3 DEF IInv, TrayFollowsMode
<1>7. phase # "boot"
  BY <1>2 DEF IInv, BeforeStartup
<1> QED
  BY <1>1, <1>2, <1>4, <1>5, <1>6, <1>7 DEF IInv

\* The steps that change neither the coordinator nor the tray.
LEMMA QuietStep ==
  ASSUME IInv, Run \/ PowerSuspend \/ QueryEndSession \/ UNCHANGED vars
  PROVE  IInv' /\ UNCHANGED <<blk, tray, surface, ended>>
<1>1. UNCHANGED <<blk, tray, surface, ended>>
  BY DEF Run, PowerSuspend, QueryEndSession, vars
<1>2. /\ phase' \in {"booted", "running"} <=> phase \in {"booted", "running"}
      /\ phase' = "stopped" <=> phase = "stopped"
      /\ phase' = "boot" => phase = "boot" /\ UNCHANGED pending
      /\ phase' \in {"boot", "booted", "running", "stopped"}
  BY DEF Run, PowerSuspend, QueryEndSession, vars, IInv, TypeOK
<1>3. /\ pending' \in PendingType /\ owed' = owed
      /\ pending' # NoRestore => pending # NoRestore
  BY DEF IInv, TypeOK, Run, PowerSuspend, QueryEndSession, vars, PendingType, NoRestore
<1>4. reply' \in [to : Modes \cup {"None", "Power", "Query"}, ok : BOOLEAN]
  <2>1. \/ reply' = reply \/ reply' = NoReply
        \/ reply' = [to |-> "Query", ok |-> ~blk.veto]
    BY DEF Run, PowerSuspend, QueryEndSession, vars
  <2>2. NoReply \in [to : Modes \cup {"None", "Power", "Query"}, ok : BOOLEAN]
    BY DEF NoReply
  <2>3. (~blk.veto) \in BOOLEAN
    OBVIOUS
  <2>4. [to |-> "Query", ok |-> ~blk.veto]
          \in [to : Modes \cup {"None", "Power", "Query"}, ok : BOOLEAN]
    BY <2>3
  <2> QED
    BY <2>1, <2>2, <2>4, Zenon DEF IInv, TypeOK
<1>5. TypeOK'
  BY <1>1, <1>2, <1>3, <1>4, ZenonT(30) DEF IInv, TypeOK, Run, PowerSuspend, QueryEndSession, vars
<1>6. AllowMeansReleased' /\ BlockMeansVeto' /\ TrayFollowsMode' /\ PendingIsOwed'
  BY <1>1, <1>2, <1>3 DEF IInv, AllowMeansReleased, BlockMeansVeto, TrayFollowsMode,
     PendingIsOwed
<1> QED
  BY <1>1, <1>2, <1>5, <1>6 DEF IInv, BeforeStartup

\* Every step keeps the invariant.
LEMMA NextIInv == IInv /\ [Next]_vars => IInv'
<1> SUFFICES ASSUME IInv, [Next]_vars PROVE IInv'
  OBVIOUS
<1>1. CASE Bootstrap
  BY <1>1, BootstrapStep
<1>2. CASE Run \/ PowerSuspend \/ QueryEndSession \/ UNCHANGED vars
  BY <1>2, QuietStep
<1>3. ASSUME NEW m \in Modes, RequestMode(m) PROVE IInv'
  BY <1>3, RequestModeStep
<1>4. ASSUME NEW a \in PowerActions, TrayPowerAction(a) PROVE IInv'
  BY <1>4, TrayPowerActionStep
<1>5. CASE PowerResume
  BY <1>5, PowerResumeStep
<1>6. CASE EndSession
  BY <1>6, EndSessionStep
<1>7. CASE Shutdown
  BY <1>7, ShutdownStep
<1>8. ASSUME NEW l \in Background, ThreadStarts(l) \/ ThreadStops(l) \/ ThreadFails(l)
      PROVE  IInv'
  BY <1>8, ThreadStep
<1>9. CASE TrayThreadHandlesCommand \/ TrayThreadDies
  BY <1>9, TrayThreadStep
<1> QED
  BY <1>1, <1>2, <1>3, <1>4, <1>5, <1>6, <1>7, <1>8, <1>9 DEF Next, Terminated

\* The inductive invariant holds in every reachable state.
THEOREM Invariance == Spec => []IInv
  BY InitIInv, NextIInv, PTL DEF Spec

\* Every variable keeps its type, for every bound on the tray's backlog.
THEOREM TypeCorrect == Spec => []TypeOK
<1>1. IInv => TypeOK
  BY DEF IInv
<1> QED
  BY <1>1, Invariance, PTL

\* A runtime in Allow, and a stopped one, holds nothing (coordinator set_mode, its
\* rollback, shutdown and the destructors).
THEOREM NothingOutlivesBlock == Spec => []AllowMeansReleased
<1>1. IInv => AllowMeansReleased
  BY DEF IInv
<1> QED
  BY <1>1, Invariance, PTL

\* A runtime in Block refuses WM_QUERYENDSESSION until Windows ends the session.
THEOREM BlockIsArmed == Spec => []BlockMeansVeto
<1>1. IInv => BlockMeansVeto
  BY DEF IInv
<1> QED
  BY <1>1, Invariance, PTL

\* The last mode sent to a living tray thread is the coordinator's mode.
THEOREM TrayInStep == Spec => []TrayFollowsMode
<1>1. IInv => TrayFollowsMode
  BY DEF IInv
<1> QED
  BY <1>1, Invariance, PTL

\* A restore after wake is queued only when it is owed, and only in Allow.
THEOREM RestoreOnlyWhenOwed == Spec => []PendingIsOwed
<1>1. IInv => PendingIsOwed
  BY DEF IInv
<1> QED
  BY <1>1, Invariance, PTL

\* No failure, rollback, resume or thread switches the mode by itself.
THEOREM ModeNeverDrifts == Spec => ModeChangesOnlyWhenAsked
<1> DEFINE Asked ==
      /\ blk.mode = "Allow" /\ blk'.mode = "Block" =>
           phase = "boot" \/ owed \/ reply'.to = "Block"
      /\ blk.mode = "Block" /\ blk'.mode = "Allow" =>
           reply'.to \in {"Allow", "Power"} \/ ended' \/ phase' = "stopped"
<1>1. IInv /\ [Next]_vars => [Asked]_vars
  <2> SUFFICES ASSUME IInv, Next PROVE Asked
    BY DEF vars
  <2>1. CASE Bootstrap
    <3>1. phase = "boot" /\ blk.mode = "Allow"
      BY <2>1, BlockerOffLemma DEF Bootstrap, IInv, BeforeStartup
    <3> QED
      BY <3>1
  <2>2. CASE Run \/ PowerSuspend \/ QueryEndSession \/ UNCHANGED vars
    BY <2>2, QuietStep
  <2>3. ASSUME NEW m \in Modes, RequestMode(m) PROVE Asked
    <3>1. blk'.mode \in {blk.mode, m}
      BY <2>3, RequestModeStep
    <3>2. PICK r \in ApplicationSetMode(blk, tray, m) : reply' = [to |-> m, ok |-> r.ok]
      BY <2>3, Zenon DEF RequestMode
    <3>3. reply'.to = m
      BY <3>2
    <3> QED
      BY <3>1, <3>3
  <2>4. ASSUME NEW a \in PowerActions, TrayPowerAction(a) PROVE Asked
    <3>1. (blk.mode = "Allow" => blk'.mode = "Allow") /\ reply'.to = "Power"
      BY <2>4, TrayPowerActionStep DEF TrayPowerAction
    <3> QED
      BY <3>1, Zenon
  <2>5. CASE PowerResume
    <3>1. /\ blk.mode = "Block" => blk'.mode = "Block"
          /\ pending = NoRestore => blk'.mode = blk.mode
      BY <2>5, PowerResumeStep
    <3> QED
      BY <3>1 DEF IInv, PendingIsOwed
  <2>6. CASE EndSession
    BY <2>6, EndSessionStep
  <2>7. CASE Shutdown
    <3>1. PICK r \in CoordinatorSetMode(blk, "Allow") : blk' = DropCoordinator(r.b)
      BY <2>7 DEF Shutdown
    <3>2. WellFormed(r.b) /\ r.b.mode \in {blk.mode, "Allow"}
      BY IInvFacts, CoordinatorSetModeLemma DEF Modes
    <3>3. blk'.mode = r.b.mode /\ phase' = "stopped"
      BY <2>7, <3>1, <3>2, DropCoordinatorLemma, Zenon DEF Shutdown
    <3> QED
      BY <3>2, <3>3
  <2>8. ASSUME NEW l \in Background, ThreadStarts(l) \/ ThreadStops(l) \/ ThreadFails(l)
        PROVE  Asked
    BY <2>8, ThreadStep DEF SameLayer1
  <2>9. CASE TrayThreadHandlesCommand \/ TrayThreadDies
    BY <2>9, TrayThreadStep
  <2> QED
    BY <2>1, <2>2, <2>3, <2>4, <2>5, <2>6, <2>7, <2>8, <2>9 DEF Next, Terminated
<1> QED
  BY <1>1, Invariance, PTL DEF Spec, ModeChangesOnlyWhenAsked

\* Leaving Block clears the reason, the veto and every worker, also in a process that
\* survived the end of the session and kept a reason without its veto; only the forced
\* cleanup itself, which joins nobody, gives the mode back without that.
THEOREM SurvivorComesBackClean == Spec => SurvivorReleases
<1> DEFINE Cleared == blk.mode = "Block" /\ blk'.mode = "Allow" =>
                        Released(blk') \/ forced' # forced
<1>0. ASSUME Tidy(blk) => Tidy(blk') PROVE Cleared
  BY <1>0, Zenon DEF Tidy
<1>1. IInv /\ [Next]_vars => [Cleared]_vars
  <2> SUFFICES ASSUME IInv, Next PROVE Cleared
    BY DEF vars
  <2>1. CASE Bootstrap
    <3>1. blk.mode = "Allow"
      BY <2>1, BlockerOffLemma DEF Bootstrap, IInv, BeforeStartup
    <3> QED
      BY <3>1
  <2>2. CASE Run \/ PowerSuspend \/ QueryEndSession \/ UNCHANGED vars
    BY <2>2, QuietStep
  <2>3. ASSUME NEW m \in Modes, RequestMode(m) PROVE Cleared
    <3>1. PICK r \in ApplicationSetMode(blk, tray, m) : blk' = r.b /\ tray' = r.t
      BY <2>3, Zenon DEF RequestMode
    <3>2. Kept(blk, tray, blk', tray')
      BY <3>1, IInvFacts, ApplicationSetModeLemma, Zenon
    <3> QED
      BY <1>0, <3>2 DEF Kept
  <2>4. ASSUME NEW a \in PowerActions, TrayPowerAction(a) PROVE Cleared
    <3>1. PICK r \in RunPowerAction(blk, tray, a) : blk' = r.b /\ tray' = r.t
      BY <2>4, Zenon DEF TrayPowerAction
    <3>2. Kept(blk, tray, blk', tray')
      BY <3>1, IInvFacts, RunPowerActionLemma, Zenon
    <3> QED
      BY <1>0, <3>2 DEF Kept
  <2>5. CASE PowerResume
    BY <2>5, PowerResumeStep
  <2>6. CASE EndSession
    <3>1. CASE forced' # forced
      BY <3>1
    <3>2. CASE forced' = forced
      <4>1. (~forced /\ forced' = TRUE) \/ blk' = [blk EXCEPT !.veto = FALSE]
        BY <2>6, Zenon DEF EndSession
      <4>2. blk'.mode = blk.mode
        BY <3>2, <4>1, IInvFacts, Zenon DEF WellFormed, BlockerType
      <4> QED
        BY <4>2
    <3> QED
      BY <3>1, <3>2
  <2>7. CASE Shutdown
    <3>1. PICK r \in CoordinatorSetMode(blk, "Allow") : blk' = DropCoordinator(r.b)
      BY <2>7 DEF Shutdown
    <3>2. WellFormed(r.b)
      BY IInvFacts, CoordinatorSetModeLemma DEF Modes
    <3> QED
      BY <3>1, <3>2, DropCoordinatorLemma, Zenon
  <2>8. ASSUME NEW l \in Background, ThreadStarts(l) \/ ThreadStops(l) \/ ThreadFails(l)
        PROVE  Cleared
    BY <2>8, ThreadStep DEF SameLayer1
  <2>9. CASE TrayThreadHandlesCommand \/ TrayThreadDies
    BY <2>9, TrayThreadStep
  <2> QED
    BY <2>1, <2>2, <2>3, <2>4, <2>5, <2>6, <2>7, <2>8, <2>9 DEF Next, Terminated
<1> QED
  BY <1>1, Invariance, PTL DEF Spec, SurvivorReleases

\* The runtime implements ProtectionMode: before the end of the session the veto is a
\* function of the mode, so every step is an arming, a disarming or a stutter.
THEOREM Refinement == Spec => ImplementsProtectionMode
<1> DEFINE mode == IF phase = "stopped" THEN "Allow" ELSE blk.mode
<1>1. Init => Abstract!Init
  BY BlockerOffLemma DEF Init, Abstract!Init, Released
<1>2. IInv /\ IInv' /\ [Next]_vars => [Abstract!Next]_(Abstract!vars)
  <2> SUFFICES ASSUME IInv, IInv', [Next]_vars
               PROVE  [Abstract!Next]_(Abstract!vars)
    OBVIOUS
  <2>1. /\ blk.mode \in Modes /\ blk'.mode \in Modes
        /\ blk.veto \in BOOLEAN /\ blk'.veto \in BOOLEAN
        /\ ended \in BOOLEAN /\ ended' \in BOOLEAN
    BY Zenon DEF IInv, TypeOK, BlockerType
  <2>2. /\ ~ended => (blk.veto = (mode = "Block"))
        /\ ~ended' => (blk'.veto = (mode' = "Block"))
    BY <2>1 DEF IInv, AllowMeansReleased, BlockMeansVeto, Released, Modes
  <2>3. CASE EndSession
    <3>1. ended' /\ ~blk'.veto /\ mode' \in {mode, "Allow"}
      BY <2>3, EndSessionStep
    <3> QED
      BY <2>1, <3>1 DEF Abstract!Next, Abstract!Commit
  <2>4. CASE ~EndSession
    <3>1. ended' = ended
      BY <2>4, Zenon DEF Next, vars, Bootstrap, Run, RequestMode, TrayPowerAction, PowerSuspend,
         PowerResume, QueryEndSession, Shutdown, ThreadStarts, ThreadStops, ThreadFails,
         ThreadReturns, TrayThreadHandlesCommand, TrayThreadDies, Terminated
    <3>2. CASE ended
      BY <2>1, <3>1, <3>2 DEF Abstract!Next, Abstract!AfterCommit, Modes
    <3>3. CASE ~ended
      BY <2>1, <2>2, <3>1, <3>3 DEF Abstract!Next, Abstract!vars, Abstract!Arm,
         Abstract!Disarm, Modes
    <3> QED
      BY <3>2, <3>3
  <2> QED
    BY <2>3, <2>4
<1> QED
  BY <1>1, <1>2, Invariance, PTL DEF Spec, ImplementsProtectionMode, Abstract!Spec
-----------------------------------------------------------------------------
(***************************************************************************)
(* Layer 3.                                                                *)
(***************************************************************************)
\* What the worker's place says of the restore state it shares with the controller.
RestoreStateFits ==
  /\ thread = "start" => rs = "unrecorded"
  /\ thread = "disable" => rs # "restore" /\ ~guard /\ original = "enabled"
  /\ thread \in {"wait", "recheck", "redisable"} => guard
  /\ guard => rs # "unrecorded"
  /\ thread = "enable" => rs = "restore"
  /\ thread # "none" /\ rs = "restore" => original = "enabled"

\* activate resets the restore state only when no thread is left that still needs it.
NoThreadWithoutHandle == ui = "idle" /\ ~worker => thread = "none"

\* While the worker runs, a task that is to be restored is marked for it.
MarkedForRestore ==
  /\ ours => task = "disabled"
  /\ ours /\ excused = "no" => rs = "restore" /\ thread # "none"

UpdateIInv ==
  /\ UpdateTypeOK
  /\ ActiveMeansWatching
  /\ RestoreStateFits
  /\ NoThreadWithoutHandle
  /\ MarkedForRestore

USE DEF TaskStates, RestoreStates

\* A process that has just started satisfies the invariant.
LEMMA UpdateInitIInv == UpdateInit => UpdateIInv
<1> SUFFICES ASSUME UpdateInit PROVE UpdateIInv
  OBVIOUS
<1>1. crashes \in 0..MaxCrashes
  BY CrashAssumption DEF UpdateInit
<1>2. UpdateTypeOK
  BY <1>1, Zenon DEF UpdateInit, UpdateTypeOK
<1>3. ActiveMeansWatching /\ RestoreStateFits /\ NoThreadWithoutHandle /\ MarkedForRestore
  BY DEF UpdateInit, ActiveMeansWatching, RestoreStateFits, NoThreadWithoutHandle, MarkedForRestore
<1> QED
  BY <1>2, <1>3 DEF UpdateIInv

\* Every step of the controller, of the worker, of Windows and of a restart preserves the
\* invariant.
LEMMA UpdateNextIInv == UpdateIInv /\ [UpdateNext]_updateVars => UpdateIInv'
<1> SUFFICES ASSUME UpdateIInv, [UpdateNext]_updateVars PROVE UpdateIInv'
  OBVIOUS
<1> USE CrashAssumption
    DEF UpdateIInv, UpdateTypeOK, ActiveMeansWatching, RestoreStateFits, NoThreadWithoutHandle,
        MarkedForRestore
<1>1. CASE Activate
  BY <1>1, Zenon DEF Activate
<1>2. CASE BeginForcedShutdownCleanup
  BY <1>2, ZenonT(60) DEF BeginForcedShutdownCleanup
<1>3. CASE Deactivate
  BY <1>3, ZenonT(60) DEF Deactivate
<1>4. CASE Joined
  BY <1>4, Zenon DEF Joined
<1>5. CASE Ensure
  <2>1. CASE NotEnsured /\ UNCHANGED rs
    BY <1>5, <2>1, ZenonT(60) DEF Ensure, NotEnsured
  <2>2. CASE /\ task = "disabled"
             /\ Ensured /\ rs' = IF rs = "unrecorded" THEN "recorded" ELSE rs
    BY <1>5, <2>2, Zenon DEF Ensure, Ensured
  <2>3. CASE /\ task = "enabled"
             /\ thread' = IF rs = "unrecorded" THEN "disable" ELSE "redisable"
             /\ rs' = IF rs = "unrecorded" THEN "recorded" ELSE rs
             /\ UNCHANGED <<guard, active>>
    BY <1>5, <2>3, Zenon DEF Ensure
  <2> QED
    BY <1>5, <2>1, <2>2, <2>3, Zenon DEF Ensure
<1>6. CASE Disable
  <2>1. CASE NotEnsured /\ UNCHANGED <<rs, task, ours>>
    BY <1>6, <2>1, ZenonT(60) DEF Disable, NotEnsured
  <2>2. CASE /\ Ensured /\ task' = "disabled"
             /\ rs' = IF thread = "disable" THEN "restore" ELSE rs
             /\ ours' = (ours \/ (task = "enabled" /\ rs' = "restore"))
    <3>1. ours' \in BOOLEAN
      BY <2>2, Zenon
    <3>2. active' \in BOOLEAN
      BY <2>2, Zenon DEF Ensured
    <3> QED
      BY <1>6, <2>2, <3>1, <3>2 DEF Disable, Ensured
  <2> QED
    BY <1>6, <2>1, <2>2, Zenon DEF Disable
<1>7. CASE Stop
  BY <1>7, Zenon DEF Stop
<1>8. CASE Restore
  BY <1>8 DEF Restore
<1>9. CASE Enable
  <2>1. CASE task' = "enabled" /\ ours' = FALSE /\ excused' = "no"
    <3>1. ours' \in BOOLEAN /\ ~ours'
      BY <2>1, Zenon
    <3> QED
      BY <1>9, <2>1, <3>1 DEF Enable
  <2>2. CASE excused' = (IF ours THEN "failed" ELSE excused) /\ UNCHANGED <<task, ours>>
    BY <1>9, <2>2, Zenon DEF Enable
  <2> QED
    BY <1>9, <2>1, <2>2, Zenon DEF Enable
<1>10. CASE Recheck
  BY <1>10 DEF Recheck
<1>11. CASE WindowsChangesTask
  BY <1>11, ZenonT(60) DEF WindowsChangesTask
<1>12. CASE Crash
  <2>1. crashes' \in 0..MaxCrashes
    BY <1>12 DEF Crash
  <2>2. UpdateTypeOK'
    BY <1>12, <2>1, Zenon DEF Crash
  <2> QED
    BY <1>12, <2>2 DEF Crash
<1>13. CASE UNCHANGED updateVars
  BY <1>13 DEF updateVars
<1> QED
  BY <1>1, <1>2, <1>3, <1>4, <1>5, <1>6, <1>7, <1>8, <1>9, <1>10, <1>11, <1>12, <1>13, Zenon
  DEF UpdateNext, WorkerStep

\* The invariant holds in every reachable state.
THEOREM UpdateInvariance == UpdateSpec => []UpdateIInv
BY UpdateInitIInv, UpdateNextIInv, PTL DEF UpdateSpec

\* Every variable keeps its type.
THEOREM UpdateTypeCorrect == UpdateSpec => []UpdateTypeOK
<1>1. UpdateIInv => UpdateTypeOK
  BY DEF UpdateIInv
<1> QED BY <1>1, UpdateInvariance, PTL

\* Layer 3 reports itself active only while its worker watches the task.
THEOREM ActiveIsTrue == UpdateSpec => []ActiveMeansWatching
<1>1. UpdateIInv => ActiveMeansWatching
  BY DEF UpdateIInv
<1> QED BY <1>1, UpdateInvariance, PTL

\* A task that Wardoff disabled is enabled again when the worker has returned, unless a
\* call failed or the process was ended.
THEOREM TaskComesBack == UpdateSpec => []TaskRestored
<1>1. UpdateIInv => TaskRestored
  BY DEF UpdateIInv, MarkedForRestore, TaskRestored, UpdateTypeOK
<1> QED BY <1>1, UpdateInvariance, PTL

\* The worker enables no task that it found disabled.
THEOREM OnlyOriginal == UpdateSpec => EnablesOnlyOriginallyEnabled
<1>1. UpdateIInv /\ [UpdateNext]_updateVars =>
        [Enable /\ task' = "enabled" /\ task # "enabled" => original = "enabled"]_updateVars
  BY DEF UpdateIInv, RestoreStateFits, Enable
<1> QED
  BY <1>1, UpdateInvariance, PTL DEF UpdateSpec, EnablesOnlyOriginallyEnabled

-----------------------------------------------------------------------------
(***************************************************************************)
(* The idle-sleep layer.                                                   *)
(***************************************************************************)
\* What is counted on the object was acquired, and what was acquired is still counted
\* unless Windows ended it or the release has begun.
Counted ==
  \A k \in Types :
    /\ held[k] <= 1
    /\ held[k] # 0 => acquired[k]
    /\ acquired[k] /\ ~lapsed /\ pc \notin {"clear", "close"} => held[k] = 1

\* How far the acquisition has come: Set works on the first type that is not acquired.
Progress ==
  /\ pc = "set" => /\ ~acquired["display"]
                   /\ next = 1 => ~acquired["system"]
                   /\ next = 2 => acquired["system"]
  /\ pc \in {"set", "clear"} => handle
  /\ ~handle => ~acquired["system"] /\ ~acquired["display"]
  /\ pc = "idle" /\ handle => acquired["system"] /\ acquired["display"]

\* A release inside an activation or a renewal is the clean-up of a failure.
ReleaseFits == pc = "clear" /\ op # "deactivate" => failed

RequestIInv ==
  /\ RequestTypeOK
  /\ Counted
  /\ Progress
  /\ ReleaseFits
  /\ NothingOutlivesItsHandle

USE DEF RequestTypes, Types, None

\* The layer starts without an object.
LEMMA RequestInitIInv == RequestInit => RequestIInv
<1> SUFFICES ASSUME RequestInit PROVE RequestIInv
  OBVIOUS
<1>1. /\ failed \in BOOLEAN /\ handle \in BOOLEAN /\ stray \in BOOLEAN
      /\ closeFailed \in BOOLEAN /\ lapsed \in BOOLEAN /\ acquired \in [Types -> BOOLEAN]
  BY Zenon DEF RequestInit
<1> QED
  BY <1>1 DEF RequestInit, RequestIInv, RequestTypeOK, Counted, Progress, ReleaseFits, NothingOutlivesItsHandle

\* Every Win32 call, succeeding or failing, and every sleep preserves the invariant.
LEMMA RequestNextIInv == RequestIInv /\ [RequestNext]_requestVars => RequestIInv'
<1> SUFFICES ASSUME RequestIInv, [RequestNext]_requestVars PROVE RequestIInv'
  OBVIOUS
<1> USE DEF RequestIInv, RequestTypeOK, Counted, Progress, ReleaseFits, NothingOutlivesItsHandle
<1>1. CASE ActivateRequests
  <2>1. failed' \in BOOLEAN /\ ~failed'
    BY <1>1, Zenon DEF ActivateRequests
  <2> QED
    BY <1>1, <2>1 DEF ActivateRequests, IsActive
<1>2. CASE DeactivateRequests
  <2>1. failed' \in BOOLEAN /\ ~failed'
    BY <1>2, Zenon DEF DeactivateRequests
  <2> QED
    BY <1>2, <2>1 DEF DeactivateRequests
<1>3. CASE RenewAfterResume
  <2>1. failed' \in BOOLEAN /\ ~failed'
    BY <1>3, Zenon DEF RenewAfterResume
  <2> QED
    BY <1>3, <2>1 DEF RenewAfterResume
<1>4. CASE Create
  <2>1. /\ failed' \in BOOLEAN /\ handle' \in BOOLEAN /\ lapsed' \in BOOLEAN
        /\ stray' \in BOOLEAN
    BY <1>4, Zenon DEF Create
  <2>2. stray' = stray
    BY <1>4, Zenon DEF Create
  <2>3. pc = "create" /\ UNCHANGED <<op, acquired, closeFailed>>
    BY <1>4, Zenon DEF Create
  <2>4. CASE pc' = "set" /\ next' = 1 /\ handle' = TRUE /\ held' = None /\ lapsed' = FALSE
    BY <2>1, <2>2, <2>3, <2>4, SMTT(20)
  <2>5. CASE pc' = "idle" /\ failed' = TRUE /\ UNCHANGED <<next, handle, held, lapsed>>
    BY <2>1, <2>2, <2>3, <2>5
  <2> QED
    BY <1>4, <2>4, <2>5, Zenon DEF Create
<1>5. CASE Set
  <2>1. failed' \in BOOLEAN
    BY <1>5, Zenon DEF Set
  <2>2. next = 1 \/ next = 2
    OBVIOUS
  <2>3. CASE pc' = "clear"
    <3>1. /\ next' = 1 /\ failed' = TRUE
          /\ UNCHANGED <<held, acquired, op, handle, stray, closeFailed, lapsed>>
      BY <1>5, <2>3 DEF Set
    <3>2. pc = "set"
      BY <1>5, Zenon DEF Set
    <3> QED
      BY <2>1, <2>3, <3>1, <3>2, SMTT(20)
  <2>4. CASE pc' # "clear" /\ next = 1
    <3>1. /\ held' = [held EXCEPT !["system"] = @ + 1]
          /\ acquired' = [acquired EXCEPT !["system"] = TRUE]
          /\ pc' = pc /\ next' = 2
          /\ UNCHANGED <<failed, op, handle, stray, closeFailed, lapsed>>
      BY <1>5, <2>4, SMTT(20) DEF Set
    <3>2. pc = "set"
      BY <1>5, Zenon DEF Set
    <3> QED
      BY <2>1, <2>4, <3>1, <3>2
  <2>5. CASE pc' # "clear" /\ next = 2
    <3>1. /\ held' = [held EXCEPT !["display"] = @ + 1]
          /\ acquired' = [acquired EXCEPT !["display"] = TRUE]
          /\ pc' = "idle" /\ next' = next
          /\ UNCHANGED <<failed, op, handle, stray, closeFailed, lapsed>>
      BY <1>5, <2>5, SMTT(20) DEF Set
    <3>2. pc = "set"
      BY <1>5, Zenon DEF Set
    <3> QED
      BY <2>1, <2>5, <3>1, <3>2, SMTT(20)
  <2> QED
    BY <2>2, <2>3, <2>4, <2>5, Zenon
<1>6. CASE Clear
  <2>1. failed' \in BOOLEAN
    BY <1>6, Zenon DEF Clear
  <2> QED
    BY <1>6, <2>1 DEF Clear
<1>7. CASE Close
  <2>1. /\ failed' \in BOOLEAN /\ handle' \in BOOLEAN /\ closeFailed' \in BOOLEAN
        /\ stray' \in BOOLEAN /\ acquired' \in [Types -> BOOLEAN]
    BY <1>7, Zenon DEF Close
  <2>2. stray' => closeFailed'
    BY <1>7, Zenon DEF Close
  <2> QED
    BY <1>7, <2>1, <2>2 DEF Close
<1>8. CASE WindowsEndsRequests
  <2>1. lapsed' \in BOOLEAN
    BY <1>8, Zenon DEF WindowsEndsRequests
  <2> QED
    BY <1>8, <2>1 DEF WindowsEndsRequests
<1>9. CASE UNCHANGED requestVars
  BY <1>9 DEF requestVars
<1> QED
  BY <1>1, <1>2, <1>3, <1>4, <1>5, <1>6, <1>7, <1>8, <1>9, Zenon DEF RequestNext

\* The invariant holds in every reachable state.
THEOREM RequestInvariance == RequestSpec => []RequestIInv
BY RequestInitIInv, RequestNextIInv, PTL DEF RequestSpec

\* Every variable keeps its type, and no stored handle is overwritten.
THEOREM RequestTypeCorrect == RequestSpec => []RequestTypeOK
<1>1. RequestIInv => RequestTypeOK
  BY DEF RequestIInv
<1> QED BY <1>1, RequestInvariance, PTL

\* No request type is ever counted twice on the object.
THEOREM CountsBounded == RequestSpec => []NeverAccumulates
<1>1. RequestIInv => NeverAccumulates
  BY DEF RequestIInv, Counted, NeverAccumulates
<1> QED BY <1>1, RequestInvariance, PTL

\* Between operations the pair is held whole or not at all.
THEOREM PairIsWhole == RequestSpec => []AllOrNothing
<1>1. RequestIInv => AllOrNothing
  BY DEF RequestIInv, RequestTypeOK, Counted, Progress, AllOrNothing, IsActive
<1> QED BY <1>1, RequestInvariance, PTL

\* What the layer reports is held, until Windows ends it.
THEOREM ActiveIsHeld == RequestSpec => []ActiveMeansHeld
<1>1. RequestIInv => ActiveMeansHeld
  BY DEF RequestIInv, Counted, ActiveMeansHeld, IsActive
<1> QED BY <1>1, RequestInvariance, PTL

\* Requests outlive their handle only when Windows refused to close it.
THEOREM NoStrayRequests == RequestSpec => []NothingOutlivesItsHandle
<1>1. RequestIInv => NothingOutlivesItsHandle
  BY DEF RequestIInv
<1> QED BY <1>1, RequestInvariance, PTL

\* A renewal that reports success leaves a fresh object with exactly one pair.
THEOREM RenewalIsExact == RequestSpec => RenewalLeavesOnePair
<1> DEFINE Step == op = "renew" /\ pc # "idle" /\ pc' = "idle" /\ ~failed' =>
                     \/ lapsed'
                     \/ handle' /\ \A k \in Types : held'[k] = 1
<1>1. RequestIInv /\ [RequestNext]_requestVars => [Step]_requestVars
  <2> SUFFICES ASSUME RequestIInv, RequestNext,
                      op = "renew", pc # "idle", pc' = "idle", ~failed', ~lapsed'
               PROVE  handle' /\ \A k \in Types : held'[k] = 1
    BY DEF requestVars
  <2>1. CASE ActivateRequests \/ DeactivateRequests \/ RenewAfterResume
    BY <2>1 DEF ActivateRequests, DeactivateRequests, RenewAfterResume
  <2>2. CASE Create
    BY <2>2, SMTT(20) DEF Create
  <2>3. CASE Set
    BY <2>3, SMTT(20) DEF Set, RequestIInv, RequestTypeOK, Counted, Progress
  <2>4. CASE Clear
    BY <2>4 DEF Clear, RequestIInv, RequestTypeOK
  <2>5. CASE Close
    BY <2>5 DEF Close, RequestIInv, RequestTypeOK
  <2>6. CASE WindowsEndsRequests
    BY <2>6 DEF WindowsEndsRequests
  <2> QED
    BY <2>1, <2>2, <2>3, <2>4, <2>5, <2>6, SMTT(20) DEF RequestNext
<1>2. [][Step]_requestVars => RenewalLeavesOnePair
  BY PTL DEF RenewalLeavesOnePair
<1> QED
  BY <1>1, <1>2, RequestInvariance, PTL DEF RequestSpec
=============================================================================
