------------------------------ MODULE SeastarApp ------------------------------
(***************************************************************************)
(* run_app of 07-async-programming/exercises/seastar_examples.cpp: a chain *)
(* of futures nobody waits for, and a local sharded<PerfCounter> that      *)
(* continuations refer to. Reactors, messages between cores and sharded<>  *)
(* are Seastar's, and external.                                            *)
(***************************************************************************)
EXTENDS Naturals

CONSTANTS Cores,
          Main       \* the core that runs run_app, one of Cores

VARIABLES
  step,      \* the call on counters whose future is awaited
  pending,   \* the cores that have its message and have not run it
  frame,     \* run_app has not returned: counters exists
  count,     \* PerfCounter::count of every core
  chain,     \* demo_chain
  app        \* app.run

appVars == <<step, pending, frame, count, chain, app>>

(* run_app up to counters.start(). *)
AppInit == /\ step = "start"
           /\ pending = Cores
           /\ frame = TRUE
           /\ count = [c \in Cores |-> 0]
           /\ chain = "sleeping"
           /\ app = "running"

(* What a use of counters does once it is gone: what it would have done, or *)
(* the program crashes.                                                     *)
Uses(A) ==
  \/ A /\ app' = app
  \/ ~frame /\ app' = "aborted" /\ UNCHANGED <<step, pending, count>>

(* A core runs the message of invoke_on_all: pc.increment(10); start and    *)
(* stop do nothing in a PerfCounter.                                        *)
OnCore(c) ==
  /\ app = "running"
  /\ c \in pending
  /\ Uses(/\ pending' = pending \ {c}
          /\ count' = IF step = "invoke" THEN [count EXCEPT ![c] = @ + 10] ELSE count
          /\ step' = step)
  /\ UNCHANGED <<frame, chain>>

(* The future is ready, and the next continuation runs: at once if run_app  *)
(* is still there to attach it, which answers from other cores cannot be in *)
(* time for; else from the reactor.                                         *)
After == [start |-> "invoke", invoke |-> "stop", stop |-> "ready"]
Continue ==
  /\ app = "running"
  /\ pending = {} /\ step # "ready"
  /\ frame => Cores = {Main}
  /\ Uses(/\ step' = After[step]
          /\ pending' = IF step = "stop" THEN {} ELSE Cores
          /\ count' = count)
  /\ UNCHANGED <<frame, chain>>

(* run_app returns its future and counters is destroyed; the destructor of  *)
(* sharded<> asserts that it has been stopped, where assertions are on.     *)
Return ==
  /\ app = "running" /\ frame
  /\ frame' = FALSE
  /\ app' \in IF step = "ready" THEN {"running"} ELSE {"running", "aborted"}
  /\ UNCHANGED <<step, pending, count, chain>>

(* demo_chain: the sleep ends; transform; print. *)
ChainStep ==
  /\ app = "running" /\ ~frame
  /\ chain # "printed"
  /\ chain' = IF chain = "sleeping" THEN "read" ELSE "printed"
  /\ UNCHANGED <<step, pending, frame, count, app>>

(* The future run_app returned is ready: the reactors stop. *)
Exit ==
  /\ app = "running" /\ ~frame /\ step = "ready"
  /\ app' = "exited"
  /\ UNCHANGED <<step, pending, frame, count, chain>>

AppNext == (\E c \in Cores : OnCore(c)) \/ Continue \/ Return \/ ChainStep \/ Exit

AppSpec == AppInit /\ [][AppNext]_appVars

-----------------------------------------------------------------------------
(* The comment at 128: app.run waits for all tasks to finish, the chain of  *)
(* demo_chain and the message to every core among them. Nobody keeps the    *)
(* chain's future (39), and run_app takes counters with it when it returns  *)
(* (114).                                                                   *)
AllTasksDone ==
  app # "running" => chain = "printed" /\ \A c \in Cores : count[c] = 10
=============================================================================
