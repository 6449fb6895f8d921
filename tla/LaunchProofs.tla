---------------------------- MODULE LaunchProofs ----------------------------
(***************************************************************************)
(* Proofs about Launch, for every number of processes and of attempts.     *)
(***************************************************************************)
EXTENDS Launch, TLAPS

\* A request has had its effect exactly in a runtime, or before its process ended; one that
\* hangs may have got that far or not.
EffectsFit ==
  \A p \in Procs :
    /\ pc[p] \in {"running", "stopping"} => effects[p] = 1
    /\ pc[p] \notin {"running", "stopping", "stuck", "exited"} => effects[p] = 0

\* A process has an exit code when it has ended; one that is leaving has relaunched itself.
ExitFit ==
  \A p \in Procs :
    /\ pc[p] # "exited" => exit[p] = "none"
    /\ pc[p] = "leaving" => \E q \in Procs : parent[q] = p

\* Only a process that has been started has a parent, and only such a one is a parent.
ParentFit ==
  \A p \in Procs :
    pc[p] = "fresh" => /\ parent[p] = 0 /\ info[p] = NoInfo
                       /\ \A q \in Procs : parent[q] # p

\* Relaunched processes are runtime launches, and a default launch among them is either
\* elevated or knows that it has been relaunched for that.
ActFit ==
  \A p \in Procs :
    /\ pc[p] = "console" => info[p].act \in {"Default", "Block"}
    /\ pc[p] \in {"reclaim", "reprobe"} => info[p].act # "Status"
    /\ parent[p] # 0 /\ pc[p] # "exited" =>
         /\ info[p].act \in {"Default", "Block"}
         /\ info[p].act = "Default" => Is(p, "relaunched") \/ Is(p, "elevated")

\* A default launch gets to its console only when it is elevated.
ConsoleFit ==
  \A p \in Procs : pc[p] = "console" /\ info[p].act = "Default" => Is(p, "elevated")

\* Who claims the session again has outlived its parent.
ReclaimFit ==
  \A p \in Procs :
    /\ pc[p] \in {"reclaim", "reprobe"} => ParentGone(p)
    /\ pc[p] = "reprobe" /\ parent[p] # 0 => p \in crowded

IInv ==
  /\ TypeOK /\ OnePrimary /\ EffectsFit /\ ExitFit /\ ParentFit /\ ActFit /\ ConsoleFit
  /\ ReclaimFit
  /\ EffectAtMostOnce /\ ExitOkMeansDone /\ ElevatesOnce /\ HandOffSucceeds

-----------------------------------------------------------------------------
(***************************************************************************)
(* The steps fall into four shapes: a command is started, a process moves  *)
(* on, starts itself again, or ends.                                       *)
(***************************************************************************)
Moves(p, place) ==
  /\ place \in Places \ {"fresh", "leaving", "exited"}
  /\ pc[p] \notin {"fresh", "leaving", "exited"}
  /\ Goto(p, place)
  /\ handles' = IF place \in Holding THEN handles \cup {p} ELSE handles \ {p}
  /\ place = "primary" => handles = {}
  /\ place \in Acting => place = "primary" \/ pc[p] \in Acting
  /\ place = "console" => /\ info[p].act \in {"Default", "Block"}
                          /\ info[p].act = "Default" => Is(p, "elevated")
  /\ place = "reclaim" => ParentGone(p) /\ info[p].act # "Status"
  /\ place = "reprobe" => pc[p] = "reclaim" /\ (parent[p] = 0 \/ p \in crowded')
  /\ place = "running" => pc[p] = "bootstrap"
  /\ place = "stopping" => pc[p] = "running"
  /\ place = "stuck" => pc[p] \in {"bootstrap", "running", "stopping"}
  /\ pc[p] \in {"running", "stopping", "stuck"} => place \in {"stopping", "stuck"}
  /\ effects' = IF place = "running" THEN [effects EXCEPT ![p] = @ + 1] ELSE effects
  /\ tries' \in [Procs -> Nat] /\ conn' \in [Procs -> 0..MaxProcs]
  /\ crowded \subseteq crowded' /\ crowded' \subseteq Procs
  /\ UNCHANGED <<info, parent, exit>>

Child(p, child) ==
  /\ pc[p] \in {"primary", "console"}
  /\ child \in Infos /\ child.act \in {"Default", "Block"}
  /\ child.act = "Default" => child.marks \cap {"relaunched", "elevated"} # {}
  /\ "relaunched" \in child.marks /\ "detached" \notin child.marks => parent[p] = 0

Ends(p, code) ==
  /\ code \in {"ok", "error", "unavailable", "status"}
  /\ pc[p] \notin {"fresh", "exited"}
  /\ Exit(p, code)
  /\ \/ UNCHANGED effects
     \/ effects[p] = 0 /\ effects' = [effects EXCEPT ![p] = 1]
  /\ code = "ok" => effects'[p] = 1 \/ pc[p] = "leaving"
  /\ code = "unavailable" => pc[p] = "reprobe" \/ info[p].act = "Status"
  /\ UNCHANGED <<parent, crowded>>

Shape ==
  \E p \in Procs :
    \/ Launch(p)
    \/ \E place \in Places : Moves(p, place)
    \/ \E child \in Infos : Child(p, child) /\ Relaunch(p, child)
    \/ \E code \in {"ok", "error", "unavailable", "status"} : Ends(p, code)

\* Each action has one of the shapes, with the facts the invariant needs about it.
LEMMA StepShape ==
  ASSUME IInv, Next
  PROVE  Shape
<1>. USE AttemptsAssumption DEF IInv
<1>1. PICK p \in Procs : Launch(p) \/ Step(p) \/ ReplyOfStuck(p) \/ Quit(p) \/ Hang(p) \/ Kill(p)
  BY DEF Next
<1>. SUFFICES \/ Launch(p)
              \/ \E place \in Places : Moves(p, place)
              \/ \E child \in Infos : Child(p, child) /\ Relaunch(p, child)
              \/ \E code \in {"ok", "error", "unavailable", "status"} : Ends(p, code)
  BY DEF Shape
<1>2. CASE ClaimPrimary(p)
  <2>1. Moves(p, "primary")
    BY <1>2 DEF ClaimPrimary, Claiming, Moves, Goto, Places, Holding, Acting, TypeOK
  <2>. QED
    BY <2>1 DEF Places
<1>3. CASE ClaimSecondary(p)
  <2>1. CASE pc[p] = "claim"
    <3>1. Moves(p, "probe")
      BY <1>3, <2>1 DEF ClaimSecondary, Moves, Goto, Places, Holding, Acting, TypeOK
    <3>. QED
      BY <3>1 DEF Places
  <2>2. CASE pc[p] = "reclaim"
    <3>1. parent[p] = 0 \/ p \in crowded'
      BY <1>3, <2>2 DEF ClaimSecondary, TypeOK, ReclaimFit, ParentGone, Holding, Acting
    <3>2. Moves(p, "reprobe")
      BY <1>3, <2>2, <3>1 DEF ClaimSecondary, Moves, Goto, Places, Holding, Acting, TypeOK
    <3>. QED
      BY <3>2 DEF Places
  <2>. QED
    BY <1>3, <2>1, <2>2 DEF ClaimSecondary, Claiming
<1>4. CASE ClaimFails(p)
  <2>1. Ends(p, "error")
    BY <1>4 DEF ClaimFails, Claiming, Ends
  <2>. QED
    BY <2>1
<1>5. CASE CloseProbe(p)
  <2>1. CASE tries[p] > 1
    <3>1. Moves(p, "claim")
      BY <1>5, <2>1 DEF CloseProbe, Moves, Goto, Places, Holding, Acting, TypeOK
    <3>. QED
      BY <3>1 DEF Places
  <2>2. CASE ~(tries[p] > 1)
    <3>1. Moves(p, "connect")
      BY <1>5, <2>2 DEF CloseProbe, Moves, Goto, Places, Holding, Acting, TypeOK
    <3>. QED
      BY <3>1 DEF Places
  <2>. QED
    BY <2>1, <2>2
<1>6. CASE GiveUp(p)
  <2>1. Ends(p, "unavailable")
    BY <1>6 DEF GiveUp, Ends
  <2>. QED
    BY <2>1
<1>7. CASE Connect(p)
  <2>. /\ pc[p] = "connect" /\ UNCHANGED <<parent, effects, crowded>>
       /\ p \notin handles
    BY <1>7 DEF Connect, TypeOK, Holding, Acting
  <2>1. ASSUME NEW q \in Procs, pc[q] \in {"running", "stuck"},
               Goto(p, "await"), conn' = [conn EXCEPT ![p] = q],
               tries' = [tries EXCEPT ![p] = 0], UNCHANGED <<info, handles, exit>>
        PROVE  Moves(p, "await")
    <3>1. q \in 0..MaxProcs
      BY DEF Procs
    <3>2. conn' \in [Procs -> 0..MaxProcs] /\ tries' \in [Procs -> Nat]
      BY <2>1, <3>1 DEF TypeOK
    <3>. QED
      BY <2>1, <3>2 DEF Moves, Places, Holding, Acting, TypeOK
  <2>2. ASSUME tries[p] > 1, tries' = [tries EXCEPT ![p] = @ - 1],
               UNCHANGED <<pc, info, conn, handles, exit>>
        PROVE  Moves(p, "connect")
    <3>1. Goto(p, "connect")
      BY <2>2 DEF Goto, TypeOK
    <3>. QED
      BY <2>2, <3>1 DEF Moves, Places, Holding, Acting, TypeOK
  <2>3. ASSUME ParentGone(p), Unavailable(p)
        PROVE  Moves(p, "reclaim") \/ Ends(p, "unavailable")
    <3>1. CASE info[p].act = "Status"
      BY <2>3, <3>1 DEF Unavailable, Ends
    <3>2. CASE info[p].act # "Status"
      BY <2>3, <3>2 DEF Unavailable, Moves, Goto, Places, Holding, Acting, TypeOK
    <3>. QED
      BY <3>1, <3>2
  <2>4. ASSUME Exit(p, "error")
        PROVE  Ends(p, "error")
    BY <2>4 DEF Ends
  <2>. QED
    BY <1>7, <2>1, <2>2, <2>3, <2>4 DEF Connect, Places
<1>8. CASE Reply(p)
  <2>. /\ pc[p] = "await" /\ effects[p] = 0 /\ effects \in [Procs -> Nat]
       /\ UNCHANGED <<parent, crowded>>
    BY <1>8 DEF Reply, EffectsFit, TypeOK
  <2>1. ASSUME Served(p)
        PROVE  Ends(p, "status") \/ Ends(p, "ok")
    BY <2>1 DEF Served, Ends
  <2>2. ASSUME Unanswered(p), Exit(p, "error")
        PROVE  Ends(p, "error")
    BY <2>2 DEF Unanswered, Ends
  <2>3. ASSUME UNCHANGED effects, Exit(p, "error")
        PROVE  Ends(p, "error")
    BY <2>3 DEF Ends
  <2>. QED
    BY <1>8, <2>1, <2>2, <2>3 DEF Reply
<1>9. CASE StatusInactive(p)
  <2>1. Ends(p, "status")
    BY <1>9 DEF StatusInactive, Ends
  <2>. QED
    BY <2>1
<1>10. CASE DropClaim(p)
  <2>1. Moves(p, "local")
    BY <1>10 DEF DropClaim, Moves, Goto, Places, Holding, Acting, TypeOK
  <2>. QED
    BY <2>1 DEF Places
<1>11. CASE SetLocally(p)
  <2>. /\ pc[p] = "local" /\ effects[p] = 0 /\ effects \in [Procs -> Nat]
       /\ UNCHANGED <<parent, crowded>>
    BY <1>11 DEF SetLocally, EffectsFit, TypeOK
  <2>1. ASSUME effects' = [effects EXCEPT ![p] = @ + 1], Exit(p, "ok")
        PROVE  Ends(p, "ok")
    BY <2>1 DEF Ends
  <2>2. ASSUME UNCHANGED effects, Exit(p, "error")
        PROVE  Ends(p, "error")
    BY <2>2 DEF Ends
  <2>. QED
    BY <1>11, <2>1, <2>2 DEF SetLocally
<1>12. CASE PrepareDefault(p)
  <2>. pc[p] = "primary" /\ info[p].act = "Default" /\ info[p] \in Infos /\ p \in handles
    BY <1>12 DEF PrepareDefault, TypeOK, Holding, Acting
  <2>1. ASSUME Is(p, "elevated"), Goto(p, "console"),
               UNCHANGED <<info, parent, tries, conn, handles, exit, effects, crowded>>
        PROVE  Moves(p, "console")
    BY <2>1 DEF Moves, Places, Holding, Acting, TypeOK
  <2>2. ASSUME NEW child \in ElevatedChildren, ~Is(p, "elevated"), ~Is(p, "relaunched")
        PROVE  child \in Infos /\ Child(p, child)
    <3>1. child \in Infos /\ child.act = "Default" /\ "relaunched" \in child.marks
      BY <2>2 DEF ElevatedChildren, Infos, Actions, Marks, Consoles
    <3>2. parent[p] = 0
      BY <2>2 DEF ActFit
    <3>. QED
      BY <3>1, <3>2 DEF Child
  <2>3. ASSUME Exit(p, "error"), UNCHANGED <<parent, effects, crowded>>
        PROVE  Ends(p, "error")
    BY <2>3 DEF Ends
  <2>. QED
    BY <1>12, <2>1, <2>2, <2>3 DEF PrepareDefault, Places
<1>13. CASE PrepareExplicit(p)
  <2>1. Moves(p, "console")
    BY <1>13 DEF PrepareExplicit, Moves, Goto, Places, Holding, Acting, TypeOK
  <2>. QED
    BY <2>1 DEF Places
<1>14. CASE PrepareConsole(p)
  <2>. DEFINE child == [act |-> info[p].act, marks |-> info[p].marks \cup {"detached"},
                        console |-> "None"]
  <2>. pc[p] = "console" /\ p \in handles /\ info[p] \in Infos
    BY <1>14 DEF PrepareConsole, TypeOK, Holding, Acting
  <2>1. ASSUME Goto(p, "bootstrap"),
               UNCHANGED <<info, parent, tries, conn, handles, exit, effects, crowded>>
        PROVE  Moves(p, "bootstrap")
    BY <2>1 DEF Moves, Places, Holding, Acting, TypeOK
  <2>2. child \in Infos /\ Child(p, child)
    <3>1. child \in Infos
      BY DEF Infos, Marks, Consoles
    <3>2. child.act \in {"Default", "Block"}
      BY DEF ActFit
    <3>3. child.act = "Default" => child.marks \cap {"relaunched", "elevated"} # {}
      BY DEF ConsoleFit, Is
    <3>. QED
      BY <3>1, <3>2, <3>3 DEF Child
  <2>3. ASSUME Exit(p, "error"), UNCHANGED <<parent, effects, crowded>>
        PROVE  Ends(p, "error")
    BY <2>3 DEF Ends
  <2>. QED
    BY <1>14, <2>1, <2>2, <2>3 DEF PrepareConsole, Places
<1>15. CASE Bootstrap(p)
  <2>. pc[p] = "bootstrap" /\ p \in handles /\ UNCHANGED <<parent, crowded>>
    BY <1>15 DEF Bootstrap, TypeOK, Holding, Acting
  <2>1. ASSUME Goto(p, "running"), effects' = [effects EXCEPT ![p] = @ + 1],
               UNCHANGED <<info, tries, conn, handles, exit>>
        PROVE  Moves(p, "running")
    BY <2>1 DEF Moves, Places, Holding, Acting, TypeOK
  <2>2. ASSUME UNCHANGED effects, Exit(p, "error")
        PROVE  Ends(p, "error")
    BY <2>2 DEF Ends
  <2>. QED
    BY <1>15, <2>1, <2>2 DEF Bootstrap, Places
<1>16. CASE Stop(p)
  <2>1. \E code \in {"ok", "error"} : Ends(p, code)
    BY <1>16 DEF Stop, EffectsFit, Ends
  <2>. QED
    BY <2>1
<1>17. CASE Leave(p)
  <2>1. Ends(p, "ok")
    BY <1>17 DEF Leave, Ends
  <2>. QED
    BY <2>1
<1>18. CASE Quit(p)
  <2>1. Moves(p, "stopping")
    BY <1>18 DEF Quit, Moves, Goto, Places, Holding, Acting, TypeOK
  <2>. QED
    BY <2>1 DEF Places
<1>19. CASE Kill(p)
  <2>1. Ends(p, "error")
    BY <1>19 DEF Kill, Ends
  <2>. QED
    BY <2>1
<1>20. CASE Hang(p)
  <2>1. Moves(p, "stuck")
    BY <1>20 DEF Hang, Moves, Goto, Places, Holding, Acting, TypeOK
  <2>. QED
    BY <2>1 DEF Places
<1>21. CASE ReplyOfStuck(p)
  <2>1. effects[p] = 0 /\ effects \in [Procs -> Nat]
    BY <1>21 DEF ReplyOfStuck, EffectsFit, TypeOK
  <2>2. Ends(p, "error")
    BY <1>21, <2>1 DEF ReplyOfStuck, Unanswered, Ends
  <2>. QED
    BY <2>2
<1>. QED
  BY <1>1, <1>2, <1>3, <1>4, <1>5, <1>6, <1>7, <1>8, <1>9, <1>10, <1>11, <1>12, <1>13,
     <1>14, <1>15, <1>16, <1>17, <1>18, <1>19, <1>20, <1>21 DEF Step


-----------------------------------------------------------------------------
(***************************************************************************)
(* The invariant, one lemma for each part of it and one case for each      *)
(* shape.                                                                  *)
(***************************************************************************)
\* The types, and that the mutex has the handles the code has open.
LEMMA TypeStep ==
  ASSUME IInv, Shape
  PROVE  TypeOK'
<1>. USE AttemptsAssumption DEF IInv, TypeOK
<1>1. PICK p \in Procs :
        \/ Launch(p)
        \/ \E place \in Places : Moves(p, place)
        \/ \E child \in Infos : Child(p, child) /\ Relaunch(p, child)
        \/ \E code \in {"ok", "error", "unavailable", "status"} : Ends(p, code)
  BY DEF Shape
<1>2. CASE Launch(p)
  BY <1>2 DEF Launch, NextProc, Goto, Places, Holding, Acting
<1>3. ASSUME NEW place \in Places, Moves(p, place)
      PROVE  TypeOK'
  <2>1. effects' \in [Procs -> Nat]
    BY <1>3 DEF Moves
  <2>2. pc' \in [Procs -> Places] /\ handles' = {q \in Procs : pc'[q] \in Holding}
    BY <1>3 DEF Moves, Goto
  <2>. QED
    BY <1>3, <2>1, <2>2 DEF Moves
<1>4. ASSUME NEW child \in Infos, Child(p, child), Relaunch(p, child)
      PROVE  TypeOK'
  <2>1. PICK q \in Procs :
          /\ NextProc(q)
          /\ pc' = [pc EXCEPT ![p] = "leaving", ![q] = "claim"]
          /\ info' = [info EXCEPT ![q] = child]
          /\ parent' = [parent EXCEPT ![q] = p]
          /\ tries' = [tries EXCEPT ![q] = IF child.act = "Default" /\ "relaunched" \in child.marks
                                           THEN ClaimAttempts ELSE 1]
          /\ UNCHANGED <<conn, handles, exit, effects, crowded>>
    BY <1>4 DEF Relaunch
  <2>2. p # q /\ p \in 0..MaxProcs
    BY <1>4, <2>1, SMTT(60) DEF Child, NextProc, Procs
  <2>3. parent' \in [Procs -> 0..MaxProcs] /\ tries' \in [Procs -> Nat]
    BY <2>1, <2>2
  <2>4. pc' \in [Procs -> Places]
    BY <2>1 DEF Places
  <2>5. handles' = {r \in Procs : pc'[r] \in Holding}
    BY <1>4, <2>1, <2>2, Zenon DEF Child, NextProc, Holding, Acting
  <2>. QED
    BY <2>1, <2>3, <2>4, <2>5
<1>5. ASSUME NEW code \in {"ok", "error", "unavailable", "status"}, Ends(p, code)
      PROVE  TypeOK'
  <2>1. NoInfo \in Infos /\ 0 \in 0..MaxProcs
    BY DEF NoInfo, Infos, Actions, Marks, Consoles
  <2>2. pc' \in [Procs -> Places] /\ handles' = {q \in Procs : pc'[q] \in Holding}
    BY <1>5 DEF Ends, Exit, Goto, Places, Holding, Acting
  <2>3. effects' \in [Procs -> Nat]
    BY <1>5 DEF Ends
  <2>. QED
    BY <1>5, <2>1, <2>2, <2>3, Zenon DEF Ends, Exit
<1>. QED
  BY <1>1, <1>2, <1>3, <1>4, <1>5

\* Only a mutex without handles makes a primary, and whoever acts has a handle.
LEMMA PrimaryStep ==
  ASSUME IInv, Shape
  PROVE  OnePrimary'
<1>. USE DEF IInv, TypeOK, OnePrimary
<1>1. PICK p \in Procs :
        \/ Launch(p)
        \/ \E place \in Places : Moves(p, place)
        \/ \E child \in Infos : Child(p, child) /\ Relaunch(p, child)
        \/ \E code \in {"ok", "error", "unavailable", "status"} : Ends(p, code)
  BY DEF Shape
<1>2. CASE Launch(p)
  BY <1>2 DEF Launch, NextProc, Goto, Acting
<1>3. ASSUME NEW place \in Places, Moves(p, place)
      PROVE  OnePrimary'
  BY <1>3 DEF Moves, Goto, Acting, Holding
<1>4. ASSUME NEW child \in Infos, Child(p, child), Relaunch(p, child)
      PROVE  OnePrimary'
  BY <1>4 DEF Relaunch, NextProc, Child, Acting
<1>5. ASSUME NEW code \in {"ok", "error", "unavailable", "status"}, Ends(p, code)
      PROVE  OnePrimary'
  BY <1>5 DEF Ends, Exit, Goto, Acting
<1>. QED
  BY <1>1, <1>2, <1>3, <1>4, <1>5

\* What a process has asked for happens at most once.
LEMMA EffectStep ==
  ASSUME IInv, Shape
  PROVE  EffectsFit' /\ EffectAtMostOnce'
<1>. USE DEF IInv, TypeOK, EffectsFit, EffectAtMostOnce
<1>1. PICK p \in Procs :
        \/ Launch(p)
        \/ \E place \in Places : Moves(p, place)
        \/ \E child \in Infos : Child(p, child) /\ Relaunch(p, child)
        \/ \E code \in {"ok", "error", "unavailable", "status"} : Ends(p, code)
  BY DEF Shape
<1>2. CASE Launch(p)
  BY <1>2 DEF Launch, NextProc, Goto
<1>3. ASSUME NEW place \in Places, Moves(p, place)
      PROVE  EffectsFit' /\ EffectAtMostOnce'
  BY <1>3 DEF Moves, Goto
<1>4. ASSUME NEW child \in Infos, Child(p, child), Relaunch(p, child)
      PROVE  EffectsFit' /\ EffectAtMostOnce'
  BY <1>4 DEF Relaunch, NextProc, Child
<1>5. ASSUME NEW code \in {"ok", "error", "unavailable", "status"}, Ends(p, code)
      PROVE  EffectsFit' /\ EffectAtMostOnce'
  BY <1>5 DEF Ends, Exit, Goto
<1>. QED
  BY <1>1, <1>2, <1>3, <1>4, <1>5

\* Exit code 0 needs an effect or a relaunch.
LEMMA ExitStep ==
  ASSUME IInv, Shape
  PROVE  ExitFit' /\ ExitOkMeansDone'
<1>. USE DEF IInv, TypeOK, ParentFit, ExitFit, ExitOkMeansDone, EffectAtMostOnce
<1>1. PICK p \in Procs :
        \/ Launch(p)
        \/ \E place \in Places : Moves(p, place)
        \/ \E child \in Infos : Child(p, child) /\ Relaunch(p, child)
        \/ \E code \in {"ok", "error", "unavailable", "status"} : Ends(p, code)
  BY DEF Shape
<1>2. CASE Launch(p)
  BY <1>2 DEF Launch, NextProc, Goto
<1>3. ASSUME NEW place \in Places, Moves(p, place)
      PROVE  ExitFit' /\ ExitOkMeansDone'
  BY <1>3 DEF Moves, Goto
<1>4. ASSUME NEW child \in Infos, Child(p, child), Relaunch(p, child)
      PROVE  ExitFit' /\ ExitOkMeansDone'
  <2>1. PICK q \in Procs :
          /\ NextProc(q)
          /\ pc' = [pc EXCEPT ![p] = "leaving", ![q] = "claim"]
          /\ parent' = [parent EXCEPT ![q] = p]
          /\ UNCHANGED <<exit, effects>>
    BY <1>4 DEF Relaunch
  <2>2. p # q /\ exit[p] = "none" /\ exit[q] = "none" /\ parent[q] = 0 /\ 0 \notin Procs
    BY <1>4, <2>1, SMTT(60) DEF Child, NextProc, Procs
  <2>3. \A a, b \in Procs : parent[b] = a => parent'[b] = a
    BY <2>1, <2>2
  <2>4. parent'[q] = p
    BY <2>1
  <2>5. ExitOkMeansDone'
    BY <2>1, <2>3
  <2>6. ExitFit'
    BY <2>1, <2>2, <2>3, <2>4
  <2>. QED
    BY <2>5, <2>6
<1>5. ASSUME NEW code \in {"ok", "error", "unavailable", "status"}, Ends(p, code)
      PROVE  ExitFit' /\ ExitOkMeansDone'
  BY <1>5 DEF Ends, Exit, Goto
<1>. QED
  BY <1>1, <1>2, <1>3, <1>4, <1>5

\* What a relaunched process is.
LEMMA ActStep ==
  ASSUME IInv, Shape
  PROVE  ParentFit' /\ ActFit' /\ ConsoleFit'
<1>. USE DEF IInv, TypeOK, ParentFit, ActFit, ConsoleFit
<1>1. PICK p \in Procs :
        \/ Launch(p)
        \/ \E place \in Places : Moves(p, place)
        \/ \E child \in Infos : Child(p, child) /\ Relaunch(p, child)
        \/ \E code \in {"ok", "error", "unavailable", "status"} : Ends(p, code)
  BY DEF Shape
<1>2. CASE Launch(p)
  BY <1>2, SMTT(60) DEF Launch, NextProc, Goto, Is
<1>3. ASSUME NEW place \in Places, Moves(p, place)
      PROVE  ParentFit' /\ ActFit' /\ ConsoleFit'
  BY <1>3, Zenon DEF Moves, Goto, Is
<1>4. ASSUME NEW child \in Infos, Child(p, child), Relaunch(p, child)
      PROVE  ParentFit' /\ ActFit' /\ ConsoleFit'
  BY <1>4 DEF Relaunch, NextProc, Child, Is
<1>5. ASSUME NEW code \in {"ok", "error", "unavailable", "status"}, Ends(p, code)
      PROVE  ParentFit' /\ ActFit' /\ ConsoleFit'
  BY <1>5 DEF Ends, Exit, Goto, Is
<1>. QED
  BY <1>1, <1>2, <1>3, <1>4, <1>5, Zenon

\* A process that gives up has met somebody else than its parent.
LEMMA ReclaimStep ==
  ASSUME IInv, Shape
  PROVE  ReclaimFit' /\ HandOffSucceeds'
<1>. USE DEF IInv, TypeOK, ParentFit, ActFit, ExitFit, ReclaimFit, HandOffSucceeds
<1>1. PICK p \in Procs :
        \/ Launch(p)
        \/ \E place \in Places : Moves(p, place)
        \/ \E child \in Infos : Child(p, child) /\ Relaunch(p, child)
        \/ \E code \in {"ok", "error", "unavailable", "status"} : Ends(p, code)
  BY DEF Shape
<1>2. CASE Launch(p)
  BY <1>2 DEF Launch, NextProc, Goto, ParentGone
<1>3. ASSUME NEW place \in Places, Moves(p, place)
      PROVE  ReclaimFit' /\ HandOffSucceeds'
  BY <1>3 DEF Moves, Goto, ParentGone
<1>4. ASSUME NEW child \in Infos, Child(p, child), Relaunch(p, child)
      PROVE  ReclaimFit' /\ HandOffSucceeds'
  BY <1>4 DEF Relaunch, NextProc, Child, ParentGone
<1>5. ASSUME NEW code \in {"ok", "error", "unavailable", "status"}, Ends(p, code)
      PROVE  ReclaimFit' /\ HandOffSucceeds'
  BY <1>5 DEF Ends, Exit, Goto, ParentGone
<1>. QED
  BY <1>1, <1>2, <1>3, <1>4, <1>5

\* Elevation is asked for by processes without a parent.
LEMMA ElevateStep ==
  ASSUME IInv, Shape
  PROVE  ElevatesOnce'
<1>. USE DEF IInv, TypeOK, ParentFit, ElevatesOnce
<1>1. PICK p \in Procs :
        \/ Launch(p)
        \/ \E place \in Places : Moves(p, place)
        \/ \E child \in Infos : Child(p, child) /\ Relaunch(p, child)
        \/ \E code \in {"ok", "error", "unavailable", "status"} : Ends(p, code)
  BY DEF Shape
<1>2. CASE Launch(p)
  BY <1>2 DEF Launch, NextProc, Goto, Is
<1>3. ASSUME NEW place \in Places, Moves(p, place)
      PROVE  ElevatesOnce'
  BY <1>3, Zenon DEF Moves, Goto, Is
<1>4. ASSUME NEW child \in Infos, Child(p, child), Relaunch(p, child)
      PROVE  ElevatesOnce'
  BY <1>4 DEF Relaunch, NextProc, Child, Is
<1>5. ASSUME NEW code \in {"ok", "error", "unavailable", "status"}, Ends(p, code)
      PROVE  ElevatesOnce'
  BY <1>5, Zenon DEF Ends, Exit, Goto, Is, NoInfo
<1>. QED
  BY <1>1, <1>2, <1>3, <1>4, <1>5

-----------------------------------------------------------------------------
\* No process has been started.
LEMMA InitIInv ==
  Init => IInv
<1>. SUFFICES ASSUME Init PROVE IInv
  OBVIOUS
<1>. USE DEF Init, NoInfo
<1>1. TypeOK
  <2>1. NoInfo \in Infos /\ 0 \in 0..MaxProcs
    BY AttemptsAssumption DEF Infos, Actions, Marks, Consoles
  <2>. QED
    BY <2>1 DEF TypeOK, Places, Holding, Acting
<1>2. OnePrimary /\ EffectsFit /\ EffectAtMostOnce
  BY DEF OnePrimary, Acting, EffectsFit, EffectAtMostOnce
<1>3. ExitFit /\ ExitOkMeansDone
  BY DEF ExitFit, ExitOkMeansDone
<1>4. ParentFit /\ ActFit /\ ConsoleFit
  BY AttemptsAssumption DEF ParentFit, ActFit, ConsoleFit, Procs
<1>5. ReclaimFit /\ HandOffSucceeds
  BY DEF ReclaimFit, HandOffSucceeds
<1>6. ElevatesOnce
  BY DEF ElevatesOnce, Is
<1>. QED
  BY <1>1, <1>2, <1>3, <1>4, <1>5, <1>6 DEF IInv

\* Every step of every process keeps the invariant.
LEMMA NextIInv ==
  IInv /\ [Next]_vars => IInv'
<1>. SUFFICES ASSUME IInv, [Next]_vars PROVE IInv'
  OBVIOUS
<1>1. CASE Next
  <2>1. Shape
    BY <1>1, StepShape, SMTT(20)
  <2>. QED
    BY <2>1, TypeStep, PrimaryStep, EffectStep, ExitStep, ActStep, ReclaimStep, ElevateStep
    DEF IInv
<1>2. CASE UNCHANGED vars
  BY <1>2, SMTT(60) DEF vars, IInv, TypeOK, OnePrimary, EffectsFit, ExitFit, ParentFit, ActFit,
              ConsoleFit, ReclaimFit, ParentGone, Is, EffectAtMostOnce, ExitOkMeansDone,
              ElevatesOnce, HandOffSucceeds
<1>. QED
  BY <1>1, <1>2

\* The invariant holds in every reachable state, for any number of processes and attempts.
THEOREM LaunchInvariance ==
  Spec => []IInv
<1>. QED
  BY InitIInv, NextIInv, PTL DEF Spec

\* The variables keep their types and the mutex has exactly the handles the code has open.
THEOREM TypeCorrect ==
  Spec => []TypeOK
<1>1. IInv => TypeOK
  BY DEF IInv
<1>. QED
  BY <1>1, LaunchInvariance, PTL

\* claim_primary_instance never makes a second primary while one is acting or cleaning up.
THEOREM SinglePrimary ==
  Spec => []OnePrimary
<1>1. IInv => OnePrimary
  BY DEF IInv
<1>. QED
  BY <1>1, LaunchInvariance, PTL

\* A forwarded request is never carried out again by the process that forwarded it.
THEOREM NoDoubleEffect ==
  Spec => []EffectAtMostOnce
<1>1. IInv => EffectAtMostOnce
  BY DEF IInv
<1>. QED
  BY <1>1, LaunchInvariance, PTL

\* Exit code 0 of a command means its request was carried out or handed over.
THEOREM SuccessIsReal ==
  Spec => []ExitOkMeansDone
<1>1. IInv => ExitOkMeansDone
  BY DEF IInv
<1>. QED
  BY <1>1, LaunchInvariance, PTL

\* prepare_default_launch asks for elevation at most once in a chain of relaunches.
THEOREM NoRelaunchLoop ==
  Spec => []ElevatesOnce
<1>1. IInv => ElevatesOnce
  BY DEF IInv
<1>. QED
  BY <1>1, LaunchInvariance, PTL

\* A relaunched process that gives up met a handle other than its parent's.
THEOREM HandOff ==
  Spec => []HandOffSucceeds
<1>1. IInv => HandOffSucceeds
  BY DEF IInv
<1>. QED
  BY <1>1, LaunchInvariance, PTL

=============================================================================
