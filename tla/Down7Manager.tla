---------------------------- MODULE Down7Manager ----------------------------
(***************************************************************************)
(* The downstream LDM-7 manager (src/mcast_lib/C/down7_manager.c): a list  *)
(* of elements, one per multicast feed, each started as a child process    *)
(* by d7mgr_startAll(), which stops the children it already started when  *)
(* one fails to start.                                                     *)
(*                                                                         *)
(* A child is executeDown7(), modelled in Down7Lifecycle; here it is       *)
(* reduced to what the parent can see: it runs until SIGTERM makes it      *)
(* exit(0), or it aborts (a multicast or system failure, or a SIGTERM      *)
(* taken before down7_start() locked the state, as Down7Lifecycle shows).  *)
(***************************************************************************)
EXTENDS Naturals, Sequences, FiniteSets

CONSTANTS Feeds   \* the feeds passed to d7mgr_add()

VARIABLES top,     \* the element list, head first (d7mgr_add() pushes)
          pid,     \* pid[f]: the element's child is recorded (pid > 0)
          child,   \* child[f]: "none", "pre", "run", "exited", "aborted"
          termed,  \* termed[f]: SIGTERM sent to the child
          mpc,     \* the parent: "add", "start", "rollback", "done"
          cur,     \* index in top of the element being started
          rb,      \* index in top of the element being stopped
          status   \* d7mgr_startAll()'s status: "0" or "SYSTEM"

vars == <<top, pid, child, termed, mpc, cur, rb, status>>

ChildStates == {"none", "pre", "run", "exited", "aborted"}

TypeOK ==
  /\ top \in Seq(Feeds)
  /\ pid \in [Feeds -> BOOLEAN] /\ child \in [Feeds -> ChildStates]
  /\ termed \in [Feeds -> BOOLEAN]
  /\ mpc \in {"add", "start", "rollback", "done"}
  /\ cur \in 1..Cardinality(Feeds) + 1 /\ rb \in 1..Cardinality(Feeds) + 1
  /\ status \in {"0", "SYSTEM"}

Init ==
  /\ top = << >>
  /\ pid = [f \in Feeds |-> FALSE] /\ child = [f \in Feeds |-> "none"]
  /\ termed = [f \in Feeds |-> FALSE]
  /\ mpc = "add" /\ cur = 1 /\ rb = 1 /\ status = "0"

Added == {top[i] : i \in DOMAIN top}

-----------------------------------------------------------------------------
(* d7mgr_add(): elt_new() and push at the head of the list. *)
Add(f) ==
  /\ mpc = "add" /\ f \notin Added
  /\ top' = <<f>> \o top
  /\ UNCHANGED <<pid, child, termed, mpc, cur, rb, status>>

(* d7mgr_startAll() begins with the head of the list. *)
StartAll ==
  /\ mpc = "add"
  /\ mpc' = "start" /\ cur' = 1
  /\ UNCHANGED <<top, pid, child, termed, rb, status>>

(* elt_start(): ldmfork() fails (LDM7_SYSTEM, roll back), or the parent  *)
(* records the child's pid and goes on with the next element.            *)
EltStart ==
  /\ mpc = "start" /\ cur <= Len(top)
  /\ \/ /\ status' = "SYSTEM" /\ mpc' = "rollback" /\ rb' = 1
        /\ UNCHANGED <<pid, child, cur>>
     \/ /\ pid' = [pid EXCEPT ![top[cur]] = TRUE]
        /\ child' = [child EXCEPT ![top[cur]] = "pre"]
        /\ cur' = cur + 1
        /\ UNCHANGED <<status, mpc, rb>>
  /\ UNCHANGED <<top, termed>>

StartDone ==
  /\ mpc = "start" /\ cur > Len(top)
  /\ mpc' = "done"
  /\ UNCHANGED <<top, pid, child, termed, cur, rb, status>>

(* The rollback loop, for (elt2 = top; elt2 != elt; ...): elt_stop()      *)
(* sends SIGTERM to a recorded child and forgets its pid.                  *)
EltStop ==
  /\ mpc = "rollback" /\ rb < cur
  /\ LET e == top[rb] IN
       /\ termed' = [termed EXCEPT ![e] = @ \/ pid[e]]
       /\ pid' = [pid EXCEPT ![e] = FALSE]
  /\ rb' = rb + 1
  /\ UNCHANGED <<top, child, mpc, cur, status>>

(* A rollback loop that ends one element early. *)
RollbackDoneEarly ==
  /\ mpc = "rollback" /\ rb + 1 >= cur
  /\ mpc' = "done"
  /\ UNCHANGED <<top, pid, child, termed, cur, rb, status>>

RollbackDone ==
  /\ mpc = "rollback" /\ rb = cur
  /\ mpc' = "done"
  /\ UNCHANGED <<top, pid, child, termed, cur, rb, status>>

-----------------------------------------------------------------------------
(* The child, executeDown7() in elt_start(): down7_start() locks the      *)
(* state while it is still DOWN7_INITIALIZED...                            *)
ChildLock(f) ==
  /\ child[f] = "pre"
  /\ child' = [child EXCEPT ![f] = "run"]
  /\ UNCHANGED <<top, pid, termed, mpc, cur, rb, status>>

(* ...or a SIGTERM got there first: LDM7_INVAL and abort().               *)
ChildEarlyTerm(f) ==
  /\ child[f] = "pre" /\ termed[f]
  /\ child' = [child EXCEPT ![f] = "aborted"]
  /\ UNCHANGED <<top, pid, termed, mpc, cur, rb, status>>

(* SIGTERM ends down7_start() with LDM7_SHUTDOWN: exit(0). *)
ChildTerm(f) ==
  /\ child[f] = "run" /\ termed[f]
  /\ child' = [child EXCEPT ![f] = "exited"]
  /\ UNCHANGED <<top, pid, termed, mpc, cur, rb, status>>

(* A multicast or system failure: abort(). *)
ChildFail(f) ==
  /\ child[f] = "run"
  /\ child' = [child EXCEPT ![f] = "aborted"]
  /\ UNCHANGED <<top, pid, termed, mpc, cur, rb, status>>

Parent == StartAll \/ EltStart \/ StartDone \/ EltStop \/ RollbackDone

Child(f) == ChildLock(f) \/ ChildEarlyTerm(f) \/ ChildTerm(f)

Next ==
  \/ \E f \in Feeds : Add(f)
  \/ Parent
  \/ \E f \in Feeds : Child(f) \/ ChildFail(f)

(* The parent and the children are processes the OS schedules; failures  *)
(* need not happen.                                                       *)
Spec == Init /\ [][Next]_vars /\ WF_vars(Parent)
          /\ \A f \in Feeds : WF_vars(Child(f))

-----------------------------------------------------------------------------
(* "All started multicast LDM receivers were stopped": once               *)
(* d7mgr_startAll() has failed, every child it forked has been sent        *)
(* SIGTERM.                                                                *)
RollbackStopsStarted ==
  (mpc = "done" /\ status = "SYSTEM") =>
    \A f \in Feeds : child[f] # "none" => termed[f]

=============================================================================
