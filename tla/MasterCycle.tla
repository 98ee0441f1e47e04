---------------------------- MODULE MasterCycle ----------------------------
(***************************************************************************)
(* The master process and its children: the loop of                        *)
(* ngx_master_process_cycle, the process table of ngx_spawn_process, the   *)
(* signal handler, the channel over which the master commands its          *)
(* children, and the life of a worker and of the cache processes           *)
(* (src/src/os/unix/bjrk-edge_process_cycle.c, bjrk-edge_process.c,        *)
(* bjrk-edge_channel.c and ngx_exec_new_binary in                          *)
(* src/src/core/bjrk-edge.c).                                              *)
(*                                                                         *)
(* The master blocks every signal except inside sigsuspend().  A signal is *)
(* therefore pending until the next sigsuspend(), where the handlers of    *)
(* all the pending ones run, and the body of the loop that follows is one  *)
(* step.  The body is written as a pipeline of operators over the record   *)
(* of everything it may change.                                            *)
(*                                                                         *)
(* A file descriptor of the master is modelled with its number, because    *)
(* the number is what the table keeps: the two ends of a channel are one   *)
(* number, and socketpair() returns the lowest free one.  The messages     *)
(* OPEN_CHANNEL and CLOSE_CHANNEL only maintain the children's copies of   *)
(* the table, which no code reads, and are left out.  A behaviour ends     *)
(* when the master exits.                                                  *)
(***************************************************************************)
EXTENDS Integers, Sequences, FiniteSets, SequencesExt

CONSTANTS
    ChannelSize,  \* how many commands fit in a channel
    Scenarios     \* the configurations and surroundings a behaviour may have

(***************************************************************************)
(* A scenario fixes what the configuration says (workers, manager and      *)
(* loader: ccf->worker_processes, and whether some path has a cache        *)
(* manager and a loader), the size of the table (slots:                    *)
(* NGX_MAX_PROCESSES), whether the children may be stuck (stuck), and      *)
(* bounds what happens: which signals the operator sends (commands) and    *)
(* how many, how many children die without being asked (crashes), and how  *)
(* many times fork(), a new configuration, a new binary or the start of a  *)
(* child fails (failures).                                                 *)
(***************************************************************************)
Signals == {"TERM", "QUIT", "HUP", "USR1", "USR2", "WINCH", "IO"}

ASSUME MasterAssumption ==
    /\ ChannelSize \in Nat \ {0}
    /\ \A c \in Scenarios :
          /\ c.workers \in Nat \ {0} /\ c.slots \in Nat \ {0}
          /\ {c.manager, c.loader, c.stuck} \subseteq BOOLEAN
          /\ c.commands \subseteq Signals
          /\ {c.signals, c.crashes, c.failures} \subseteq Nat

NoFd      == 0              \* a channel of -1
NoPid     == 0              \* ngx_new_binary == 0
Invalid   == -1             \* NGX_INVALID_PID; also the pid of a free slot
KillDelay == 1000          \* milliseconds after which the master kills

VARIABLES
    conf,     \* the scenario of this behaviour
    tab,      \* ngx_processes[0 .. ngx_last_process - 1]
    fds,      \* for each descriptor of the master: the child at the other end, or NoPid
    child,    \* every process forked so far, by pid
    m,        \* the flags of the signal handler and the variables of the loop
    pending,  \* signals sent to the master and not yet delivered
    used      \* how much of each bound the behaviour has used

vars == <<conf, tab, fds, child, m, pending, used>>

Fds == 1..conf.slots

(***************************************************************************)
(* A child is forked with the master's flags.  "init" is                   *)
(* ngx_worker_process_init, "run" the event loop, "zombie" between exit()  *)
(* and waitpid(), "gone" after it.  told is history: what the master has   *)
(* sent this very process, by its channel or by kill().  So is upgrade:    *)
(* whether ngx_new_binary was set when it was started.                     *)
(***************************************************************************)
NewChild(kind, S) ==
    [kind |-> kind, gen |-> S.m.gen, st |-> "init", code |-> 0, inbox |-> <<>>,
     quit |-> S.m.quit, terminate |-> S.m.terminate, exiting |-> FALSE,
     told |-> {}, upgrade |-> S.m.new_binary # NoPid]

Alive(c) == c.st \in {"init", "run"}

\* The workers that nobody has told to stop.
Serving == {p \in DOMAIN child : /\ child[p].kind = "worker"
                                 /\ Alive(child[p])
                                 /\ ~child[p].exiting
                                 /\ child[p].told = {}}

(***************************************************************************)
(* ngx_spawn_process into slot s.  how is one of the five NGX_PROCESS_     *)
(* types, or "AGAIN" when the argument respawn is the slot of a process to *)
(* start again.  S.tries counts the forks of this iteration and S.failing  *)
(* has the numbers of those that fail.                                     *)
(***************************************************************************)
FirstOf(set, default) == IF set = {} THEN default ELSE CHOOSE x \in set : \A y \in set : x <= y

FreeSlot(S) == FirstOf({s \in DOMAIN S.tab : S.tab[s].pid = Invalid}, Len(S.tab) + 1)

FreeFd(S) == FirstOf({f \in Fds : S.fds[f] = NoPid}, NoFd)

\* Mutant: just_spawn is never set.
NewSlotNeverJust(pid, fd, kind, how) ==
    [pid |-> pid, chan |-> fd, kind |-> kind, exiting |-> FALSE, exited |-> FALSE,
     respawn |-> how \in {"RESPAWN", "JUST_RESPAWN"}, just_spawn |-> FALSE,
     detached |-> how = "DETACHED"]

NewSlot(pid, fd, kind, how) ==
    [pid |-> pid, chan |-> fd, kind |-> kind, exiting |-> FALSE, exited |-> FALSE,
     respawn    |-> how \in {"RESPAWN", "JUST_RESPAWN"},
     just_spawn |-> how \in {"JUST_SPAWN", "JUST_RESPAWN"},
     detached   |-> how = "DETACHED"]

\* The child is forked; pid is its own.
Forked(S, kind, fd) ==
    [S EXCEPT !.child  = Append(@, NewChild(kind, S)),
              !.fds    = IF fd = NoFd THEN @ ELSE [@ EXCEPT ![fd] = Len(S.child) + 1],
              !.result = Len(S.child) + 1]

\* A failure closes the new channel and leaves its numbers in the slot.
ngx_spawn_process(S, s, kind, how) ==
    LET fd == IF how = "DETACHED" THEN NoFd ELSE FreeFd(S)
        T  == [S EXCEPT !.tries = @ + 1]
        F  == Forked(T, kind, fd)
    IN  CASE s > conf.slots ->
                [S EXCEPT !.result = Invalid]
          [] s <= conf.slots /\ T.tries \in S.failing ->
                [T EXCEPT !.result = Invalid, !.failed = @ + 1,
                          !.tab = IF s \in DOMAIN @ THEN [@ EXCEPT ![s].chan = fd] ELSE @]
          [] s <= conf.slots /\ T.tries \notin S.failing /\ how = "AGAIN" ->
                [F EXCEPT !.tab[s].pid = F.result, !.tab[s].chan = fd, !.tab[s].exited = FALSE]
          [] OTHER ->
                [F EXCEPT !.tab = IF s \in DOMAIN @
                                  THEN [@ EXCEPT ![s] = NewSlot(F.result, fd, kind, how)]
                                  ELSE Append(@, NewSlot(F.result, fd, kind, how))]

Spawn(S, kind, how) == ngx_spawn_process(S, FreeSlot(S), kind, how)

(***************************************************************************)
(* Starting processes, of the type "how".                                  *)
(***************************************************************************)
ngx_start_worker_processes(S, how) ==
    FoldLeft(LAMBDA T, i : Spawn(T, "worker", how), S, [i \in 1..conf.workers |-> i])

ngx_start_cache_manager_processes(S, respawn) ==
    LET M == Spawn(S, "manager", IF respawn THEN "JUST_RESPAWN" ELSE "RESPAWN")
    IN  CASE ~conf.manager -> S
          [] conf.manager /\ ~conf.loader -> M
          [] conf.manager /\ conf.loader ->
                Spawn(M, "loader", IF respawn THEN "JUST_SPAWN" ELSE "NORESPAWN")

StartAll(S, how) ==
    ngx_start_cache_manager_processes(ngx_start_worker_processes(S, how), how = "JUST_RESPAWN")

(***************************************************************************)
(* ngx_write_channel and kill(), the two ways to tell a child something.   *)
(* The master keeps both ends of a channel open, so that writing to the    *)
(* channel of a dead child succeeds.                                       *)
(***************************************************************************)
\* Mutant: a full channel is taken for a command that was written.
CanWriteAlways(S, fd) == fd # NoFd /\ S.fds[fd] # NoPid

CanWrite(S, fd) ==
    /\ fd # NoFd
    /\ S.fds[fd] # NoPid
    /\ Len(S.child[S.fds[fd]].inbox) < ChannelSize

ngx_write_channel(S, fd, sig) ==
    [S EXCEPT !.child[S.fds[fd]].inbox = Append(@, sig),
              !.child[S.fds[fd]].told  = IF sig = "USR1" THEN @ ELSE @ \cup {sig}]

Kill(S, p, sig) ==
    IF ~Alive(S.child[p])
    THEN S
    ELSE [S EXCEPT !.child[p].told      = IF sig = "USR1" THEN @ ELSE @ \cup {sig},
                   !.child[p].quit      = @ \/ sig = "QUIT",
                   !.child[p].terminate = @ \/ sig = "TERM",
                   !.child[p].st        = IF sig = "KILL" THEN "zombie" ELSE @,
                   !.chld               = @ \/ sig = "KILL"]

\* Mutant: a process that was just spawned is marked like the others.
SignalSlotMarksAll(S, i, sig) ==
    LET sl == S.tab[i]
    IN  IF sl.detached \/ sl.pid = Invalid THEN S
        ELSE IF sl.just_spawn
        THEN [S EXCEPT !.tab[i].just_spawn = FALSE, !.tab[i].exiting = TRUE]
        ELSE IF sl.exiting /\ sig = "QUIT" THEN S
        ELSE [Kill(S, sl.pid, sig) EXCEPT !.tab[i].exiting = TRUE]

\* One slot of ngx_signal_worker_processes.
SignalSlot(S, i, sig) ==
    LET sl == S.tab[i]
        Mark(T) == IF sig = "USR1" THEN T ELSE [T EXCEPT !.tab[i].exiting = TRUE]
    IN  CASE sl.detached \/ sl.pid = Invalid -> S
          [] ~sl.detached /\ sl.pid # Invalid /\ sl.just_spawn ->
                [S EXCEPT !.tab[i].just_spawn = FALSE]
          [] ~sl.detached /\ sl.pid # Invalid /\ ~sl.just_spawn ->
                CASE sl.exiting /\ sig = "QUIT" -> S
                  [] ~(sl.exiting /\ sig = "QUIT") /\ sig # "KILL" /\ CanWrite(S, sl.chan) ->
                        Mark(ngx_write_channel(S, sl.chan, sig))
                  [] OTHER ->
                        IF S.child[sl.pid].st = "gone"
                        THEN [S EXCEPT !.tab[i].exited = TRUE, !.tab[i].exiting = FALSE,
                                       !.m.reap = TRUE]
                        ELSE Mark(Kill(S, sl.pid, sig))

ngx_signal_worker_processes(S, sig) ==
    FoldLeftDomain(LAMBDA T, i : SignalSlot(T, i, sig), S, S.tab)

(***************************************************************************)
(* ngx_reap_children.                                                      *)
(***************************************************************************)
CloseChannel(S, i) ==
    [S EXCEPT !.fds = IF S.tab[i].chan = NoFd THEN @ ELSE [@ EXCEPT ![S.tab[i].chan] = NoPid],
              !.tab[i].chan = NoFd]

\* Mutants: the death of the new binary is not recorded, or does not bring the workers back.
NewBinaryGoneForgotten(S, pid) == S
NewBinaryGoneNoRestart(S, pid) ==
    IF S.m.new_binary # pid THEN S
    ELSE [S EXCEPT !.m.new_binary = NoPid, !.m.noaccepting = FALSE]

\* The new binary is gone: if the workers were stopped for it, start them again.
NewBinaryGone(S, pid) ==
    IF S.m.new_binary # pid
    THEN S
    ELSE [S EXCEPT !.m.new_binary = NoPid,
                   !.m.restart    = @ \/ S.m.noaccepting,
                   !.m.noaccepting = FALSE]

ForgetSlot(S, i) ==
    IF i = Len(S.tab) THEN [S EXCEPT !.tab = Front(@)] ELSE [S EXCEPT !.tab[i].pid = Invalid]

\* Mutant: a dead worker is replaced during a graceful shutdown too.
MustRespawnInQuit(S, sl) == sl.respawn /\ ~sl.exiting /\ ~S.m.terminate

MustRespawn(S, sl) == sl.respawn /\ ~sl.exiting /\ ~S.m.terminate /\ ~S.m.quit

\* Mutant: the slot is freed although a new child was just put into it.
ReapSlotNoContinue(S, i) ==
    LET sl == S.tab[i]
        C  == IF sl.detached THEN S ELSE CloseChannel(S, i)
    IN  IF sl.pid = Invalid THEN S
        ELSE IF ~sl.exited THEN [S EXCEPT !.m.live = @ \/ sl.exiting \/ ~sl.detached]
        ELSE ForgetSlot(IF MustRespawn(S, sl) THEN ngx_spawn_process(C, i, sl.kind, "AGAIN")
                        ELSE NewBinaryGone(C, sl.pid), i)

\* Mutant: a child that was not told to exit does not keep the master alive.
ReapSlotExitingOnly(S, i) ==
    LET sl == S.tab[i]
    IN  IF sl.pid = Invalid THEN S
        ELSE IF ~sl.exited THEN [S EXCEPT !.m.live = @ \/ sl.exiting]
        ELSE ForgetSlot(NewBinaryGone(CloseChannel(S, i), sl.pid), i)

ReapSlot(S, i) ==
    LET sl == S.tab[i]
        C  == IF sl.detached THEN S ELSE CloseChannel(S, i)
        R  == ngx_spawn_process(C, i, sl.kind, "AGAIN")
    IN  CASE sl.pid = Invalid -> S
          [] sl.pid # Invalid /\ ~sl.exited ->
                [S EXCEPT !.m.live = @ \/ sl.exiting \/ ~sl.detached]
          [] sl.pid # Invalid /\ sl.exited /\ MustRespawn(S, sl) ->
                [R EXCEPT !.m.live = @ \/ R.result # Invalid]
          [] OTHER -> ForgetSlot(NewBinaryGone(C, sl.pid), i)

ngx_reap_children(S) ==
    FoldLeftDomain(ReapSlot, [S EXCEPT !.m.live = FALSE, !.m.reap = FALSE], S.tab)

(***************************************************************************)
(* ngx_signal_handler and ngx_process_get_status, for the signals in sigs. *)
(***************************************************************************)
Buried(c) == [c EXCEPT !.st = "gone", !.inbox = <<>>, !.quit = FALSE, !.terminate = FALSE,
                       !.exiting = FALSE, !.code = 0]

Collected(S) == {p \in DOMAIN S.child : S.child[p].st = "zombie"}

ngx_process_get_status(S) ==
    [S EXCEPT
        !.child = [p \in DOMAIN @ |-> IF p \in Collected(S) THEN Buried(@[p]) ELSE @[p]],
        !.tab   = [i \in DOMAIN @ |->
                     IF @[i].pid \notin Collected(S)
                     THEN @[i]
                     ELSE [@[i] EXCEPT !.exited = TRUE,
                                       !.respawn = @ /\ S.child[S.tab[i].pid].code # 2]]]

ngx_signal_handler(S, sigs) ==
    LET F == [S EXCEPT !.m.terminate     = @ \/ "TERM" \in sigs,
                       !.m.quit          = @ \/ "QUIT" \in sigs,
                       !.m.reconfigure   = @ \/ "HUP" \in sigs,
                       !.m.reopen        = @ \/ "USR1" \in sigs,
                       !.m.change_binary = @ \/ ("USR2" \in sigs /\ S.m.new_binary <= 0),
                       !.m.noaccept      = @ \/ "WINCH" \in sigs,
                       !.m.sigalrm       = @ \/ "ALRM" \in sigs,
                       !.m.reap          = @ \/ "CHLD" \in sigs]
    IN  IF "CHLD" \in sigs THEN ngx_process_get_status(F) ELSE F

(***************************************************************************)
(* The parts of the loop.  ok says whether ngx_init_cycle() accepts the    *)
(* new configuration and whether ngx_exec_new_binary() gets as far as its  *)
(* fork.                                                                   *)
(***************************************************************************)
Terminate(S) ==
    LET delay == IF S.m.delay = 0 THEN 50 ELSE S.m.delay
    IN  IF S.m.sigio > 0
        THEN [S EXCEPT !.m.delay = delay, !.m.sigio = @ - 1]
        ELSE ngx_signal_worker_processes([S EXCEPT !.m.delay = delay, !.m.sigio = conf.workers + 2],
                                         IF delay > KillDelay THEN "KILL" ELSE "TERM")

\* With a new binary: start the workers again, next to it.
StartBesideNewBinary(S) ==
    [StartAll([S EXCEPT !.m.reconfigure = FALSE], "RESPAWN") EXCEPT !.m.noaccepting = FALSE]

Reconfigure(S) ==
    LET N == StartAll([S EXCEPT !.m.reconfigure = FALSE, !.m.gen = @ + 1], "JUST_RESPAWN")
    IN  ngx_signal_worker_processes([N EXCEPT !.m.live = TRUE], "QUIT")

Restart(S) ==
    IF ~S.m.restart THEN S
    ELSE [StartAll([S EXCEPT !.m.restart = FALSE], "RESPAWN") EXCEPT !.m.live = TRUE]

Reopen(S) ==
    IF ~S.m.reopen THEN S
    ELSE ngx_signal_worker_processes([S EXCEPT !.m.reopen = FALSE], "USR1")

ngx_exec_new_binary(S, ok) ==
    IF ok THEN Spawn(S, "binary", "DETACHED") ELSE [S EXCEPT !.result = Invalid]

ChangeBinary(S, ok) ==
    LET N == ngx_exec_new_binary([S EXCEPT !.m.change_binary = FALSE], ok)
    IN  IF ~S.m.change_binary THEN S ELSE [N EXCEPT !.m.new_binary = N.result]

NoAccept(S) ==
    IF ~S.m.noaccept THEN S
    ELSE ngx_signal_worker_processes([S EXCEPT !.m.noaccept = FALSE, !.m.noaccepting = TRUE], "QUIT")

\* What the rest of the iteration does when there is no "continue".
Remainder(S, ok) == NoAccept(ChangeBinary(Reopen(Restart(S)), ok))

\* Mutant: the delay does not grow.
RearmSameDelay(S) ==
    IF S.m.delay = 0 \/ ~S.m.sigalrm THEN S
    ELSE [S EXCEPT !.m.sigio = 0, !.m.sigalrm = FALSE]

\* The head of the loop, before sigsuspend(): the termination timer.
\* Beyond KillDelay the delay grows without any effect, and is cut here.
Rearm(S) ==
    IF S.m.delay = 0 \/ ~S.m.sigalrm THEN S
    ELSE [S EXCEPT !.m.sigio = 0, !.m.sigalrm = FALSE,
                   !.m.delay = IF @ > KillDelay THEN @ ELSE 2 * @]

ngx_master_process_cycle(S, ok) ==
    LET R == IF S.m.reap THEN ngx_reap_children(S) ELSE S
    IN  CASE ~R.m.live /\ (R.m.terminate \/ R.m.quit) -> [R EXCEPT !.m.up = FALSE]
          [] R.m.live /\ R.m.terminate -> Terminate(R)
          [] R.m.live /\ R.m.quit /\ ~R.m.terminate -> ngx_signal_worker_processes(R, "QUIT")
          [] ~R.m.terminate /\ ~R.m.quit ->
                CASE R.m.reconfigure /\ R.m.new_binary # NoPid -> StartBesideNewBinary(R)
                  [] R.m.reconfigure /\ R.m.new_binary = NoPid /\ ~ok ->
                        [R EXCEPT !.m.reconfigure = FALSE]
                  [] R.m.reconfigure /\ R.m.new_binary = NoPid /\ ok ->
                        Remainder(Reconfigure(R), TRUE)
                  [] ~R.m.reconfigure -> Remainder(R, ok)

(***************************************************************************)
(* The actions.                                                            *)
(***************************************************************************)
State(failing) ==
    [tab |-> tab, fds |-> fds, child |-> child, m |-> m, result |-> Invalid,
     chld |-> FALSE, tries |-> 0, failing |-> failing, failed |-> 0]

Become(S) ==
    /\ tab' = S.tab
    /\ fds' = S.fds
    /\ child' = S.child
    /\ m' = S.m

Failures(n) == /\ used.failures + n <= conf.failures
               /\ used' = [used EXCEPT !.failures = @ + n]

\* The master has started its first workers and is about to wait.
Started ==
    StartAll([tab |-> <<>>, fds |-> [f \in Fds |-> NoPid], child |-> <<>>, result |-> Invalid,
              chld |-> FALSE, tries |-> 0, failing |-> {}, failed |-> 0,
              m |-> [terminate |-> FALSE, quit |-> FALSE, reconfigure |-> FALSE, reopen |-> FALSE,
                     change_binary |-> FALSE, noaccept |-> FALSE, noaccepting |-> FALSE,
                     restart |-> FALSE, reap |-> FALSE, sigalrm |-> FALSE, new_binary |-> NoPid,
                     live |-> TRUE, delay |-> 0, sigio |-> 0, gen |-> 1, up |-> TRUE]],
             "RESPAWN")

Init ==
    /\ conf \in Scenarios
    /\ tab = Started.tab
    /\ fds = Started.fds
    /\ child = Started.child
    /\ m = Started.m
    /\ pending = {}
    /\ used = [signals |-> 0, crashes |-> 0, failures |-> 0]

\* The operator signals the master.
Signal(sig) ==
    /\ m.up
    /\ used.signals < conf.signals
    /\ pending' = pending \cup {sig}
    /\ used' = [used EXCEPT !.signals = @ + 1]
    /\ UNCHANGED <<tab, fds, child, m>>

\* The termination timer expires.
Alarm ==
    /\ m.up
    /\ m.delay > 0
    /\ "ALRM" \notin pending
    /\ pending' = pending \cup {"ALRM"}
    /\ UNCHANGED <<tab, fds, child, m, used>>

\* sigsuspend() returns, and the loop goes round.
Wake ==
    /\ m.up
    /\ pending # {}
    /\ \E failing \in SUBSET (1..(2 * conf.failures)), ok \in BOOLEAN :
         LET H == ngx_signal_handler(State(failing), pending)
             S == Rearm(ngx_master_process_cycle(H, ok))
         IN  /\ ok \/ H.m.reconfigure \/ H.m.change_binary
             /\ Become(S)
             /\ Failures(S.failed + IF ok THEN 0 ELSE 1)
             /\ pending' = IF S.chld THEN {"CHLD"} ELSE {}

Dies(p, code) ==
    /\ child' = [child EXCEPT ![p].st = "zombie", ![p].code = code]
    /\ pending' = pending \cup {"CHLD"}
    /\ UNCHANGED <<tab, fds, m>>

\* ngx_worker_process_init succeeds, and signals are let in; or exit(2).
ChildInit(p) ==
    /\ child[p].st = "init"
    /\ child' = [child EXCEPT ![p].st = "run"]
    /\ UNCHANGED <<tab, fds, m, pending, used>>

ChildInitFails(p) ==
    /\ child[p].st = "init"
    /\ child[p].kind # "binary"
    /\ Failures(1)
    /\ Dies(p, 2)

\* ngx_channel_handler: every command that is waiting.
ChannelHandler(p) ==
    /\ child[p].st = "run"
    /\ child[p].inbox # <<>>
    /\ child' = [child EXCEPT ![p].inbox     = <<>>,
                              ![p].quit      = @ \/ Contains(child[p].inbox, "QUIT"),
                              ![p].terminate = @ \/ Contains(child[p].inbox, "TERM")]
    /\ UNCHANGED <<tab, fds, m, pending, used>>

\* The flags as ngx_worker_process_cycle looks at them.
WorkerTerminates(p) ==
    /\ child[p].st = "run"
    /\ child[p].kind = "worker"
    /\ child[p].terminate
    /\ Dies(p, 0)
    /\ UNCHANGED used

\* Mutant: the worker forgets that it is to quit.
WorkerQuitsForgets(p) ==
    /\ child[p].st = "run"
    /\ child[p].kind = "worker"
    /\ ~child[p].terminate
    /\ child[p].quit
    /\ child' = [child EXCEPT ![p].quit = FALSE]
    /\ UNCHANGED <<tab, fds, m, pending, used>>

WorkerQuits(p) ==
    /\ child[p].st = "run"
    /\ child[p].kind = "worker"
    /\ ~child[p].terminate
    /\ child[p].quit
    /\ child' = [child EXCEPT ![p].quit = FALSE, ![p].exiting = TRUE]
    /\ UNCHANGED <<tab, fds, m, pending, used>>

\* ngx_event_no_timers_left(): the last connection of the worker is closed.
WorkerDrained(p) ==
    /\ child[p].st = "run"
    /\ child[p].kind = "worker"
    /\ child[p].exiting
    /\ Dies(p, 0)
    /\ UNCHANGED used

\* Mutant: the cache manager looks at one of its two flags only.
HelperStopsOnTerm(p) ==
    /\ child[p].st = "run"
    /\ child[p].kind \in {"manager", "loader"}
    /\ child[p].terminate
    /\ Dies(p, 0)
    /\ UNCHANGED used

\* ngx_cache_manager_process_cycle: both kinds of shutdown exit at once.
HelperStops(p) ==
    /\ child[p].st = "run"
    /\ child[p].kind \in {"manager", "loader"}
    /\ child[p].terminate \/ child[p].quit
    /\ Dies(p, 0)
    /\ UNCHANGED used

\* The cache loader has loaded every path.
LoaderDone(p) ==
    /\ child[p].st = "run"
    /\ child[p].kind = "loader"
    /\ Dies(p, 0)
    /\ UNCHANGED used

\* A child dies by itself; the new binary may be stopped, or fail to start.
Crash(p) ==
    /\ Alive(child[p])
    /\ used.crashes < conf.crashes
    /\ used' = [used EXCEPT !.crashes = @ + 1]
    /\ Dies(p, 1)

ChildStep(p) ==
    \/ ChildInit(p)
    \/ ChannelHandler(p)
    \/ WorkerTerminates(p)
    \/ WorkerQuits(p)
    \/ WorkerDrained(p)
    \/ HelperStops(p)
    \/ LoaderDone(p)

Next ==
    /\ \/ \E sig \in conf.commands : Signal(sig)
       \/ Alarm
       \/ Wake
       \/ m.up /\ \E p \in DOMAIN child : ChildStep(p) \/ ChildInitFails(p) \/ Crash(p)
    /\ UNCHANGED conf

Spec == Init /\ [][Next]_vars

\* Signals are delivered and the timer expires (the first conjunct is WF_vars(Wake), with the guard
\* of Wake for its ENABLED).  Unless they are stuck the children run, and a worker that is shutting
\* down ends: its connections finish, or worker_shutdown_timeout closes them.
Children == ~conf.stuck /\ m.up /\ (\E p \in DOMAIN child : ChildStep(p)) /\ UNCHANGED conf

FairSpec ==
    /\ Spec
    /\ []<>~(m.up /\ pending # {}) \/ []<><<Wake>>_vars
    /\ WF_vars(Alarm /\ UNCHANGED conf)
    /\ WF_vars(Children)

(***************************************************************************)
(* Properties.                                                             *)
(***************************************************************************)
Flags == {"terminate", "quit", "reconfigure", "reopen", "change_binary", "noaccept",
          "noaccepting", "restart", "reap", "sigalrm", "live", "up"}

\* Every variable keeps its shape, and the table refers to real children and descriptors.
TypeOK ==
    /\ Len(tab) <= conf.slots
    /\ \A i \in DOMAIN tab : /\ tab[i].pid \in DOMAIN child \cup {Invalid}
                             /\ tab[i].chan \in Fds \cup {NoFd}
    /\ fds \in [Fds -> DOMAIN child \cup {NoPid}]
    /\ \A p \in DOMAIN child : /\ child[p].st \in {"init", "run", "zombie", "gone"}
                               /\ child[p].gen \in 1..m.gen
                               /\ Len(child[p].inbox) <= ChannelSize
    /\ \A f \in Flags : m[f] \in BOOLEAN
    /\ m.sigio \in 0..(conf.workers + 2)
    /\ m.new_binary \in DOMAIN child \cup {NoPid, Invalid}
    /\ pending \subseteq conf.commands \cup {"CHLD", "ALRM"}

\* The processes the master is responsible for.
Own == {p \in DOMAIN child : child[p].kind # "binary"}

\* A process that still needs a waitpid() is always in the table, once: reusing slots,
\* shrinking the table and starting again in the same slot never lose a child
\* (ngx_spawn_process, ngx_reap_children).
NoChildForgotten ==
    m.up => \A p \in DOMAIN child :
                child[p].st # "gone" => Cardinality({i \in DOMAIN tab : tab[i].pid = p}) = 1

\* man page, SIGQUIT "Shut down gracefully": a living child with the mark "exiting", which keeps
\* the master from telling it again, was told to stop (ngx_signal_worker_processes), unless a
\* failure left the numbers of a closed channel in the table, as that of fork() does.
ExitingWereTold ==
    m.up /\ used.failures = 0 =>
        \A i \in DOMAIN tab :
            tab[i].exiting /\ tab[i].pid # Invalid /\ Alive(child[tab[i].pid])
            => child[tab[i].pid].told # {}

\* man page, SIGQUIT "Shut down gracefully" and SIGTERM "Shut down quickly": the master exits after
\* its children, never leaving a worker or a cache process behind (the test of "live"), except those
\* started while ngx_new_binary was set, for which "live" may be out of date.
NoOrphans ==
    ~m.up => \A p \in Own : child[p].upgrade \/ ~Alive(child[p])

\* After a shutdown has begun the master starts no process (the guards of the respawn in
\* ngx_reap_children and the "continue" of the shutdown branches).
NoForkInShutdown ==
    m'.terminate \/ m'.quit => Len(child') = Len(child)

\* A reload tells every worker of the earlier configurations to quit, and none of the new ones
\* (NGX_PROCESS_JUST_RESPAWN and just_spawn), unless a fork failed and two slots share a channel.
ReloadHandsOver ==
    m'.gen # m.gen /\ ~m.noaccept /\ "WINCH" \notin pending /\ used'.failures = 0 =>
        \A p \in DOMAIN child' \cap Own' : Alive(child'[p]) =>
            (child'[p].gen = m'.gen <=> child'[p].told = {})

\* man page, SIGHUP "Reload configuration": when no new binary is running, the reload reads the
\* configuration, unless that fails or a shutdown has begun, or the last upgrade failed before its
\* fork and left -1 in ngx_new_binary.
HupReloads ==
    ("HUP" \in pending \ pending' /\ ~m'.terminate /\ ~m'.quit /\ m.new_binary # Invalid
        /\ ~\E p \in DOMAIN child : child[p].kind = "binary" /\ child[p].st # "gone")
    => m'.gen > m.gen \/ used'.failures > used.failures

\* Once it is told to terminate, the master ends, even if every child is stuck: the delay grows
\* until SIGKILL is used, and the deaths are collected.
TerminateEnds == m.terminate ~> ~m.up

\* Once it is told to quit, the master ends, if its children run and nothing failed.
Hindered == conf.stuck \/ used.failures > 0
QuitEnds == m.quit ~> (~m.up \/ Hindered)

\* Every worker of an earlier configuration goes, if the children run and nothing failed.
OldWorkersGo ==
    []<>(~m.up \/ Hindered \/ \A p \in Own : Alive(child[p]) => child[p].gen = m.gen)

\* Unless the operator has stopped it, the server always comes back to serving: workers that died
\* are replaced, and when a new binary fails, the workers that made way for it return.  A fork that
\* fails is not tried again.
Stopped == m.terminate \/ m.quit \/ m.noaccepting \/ pending \cap {"TERM", "QUIT", "WINCH"} # {}
ServiceResumes == []<>(Serving # {} \/ Stopped \/ Hindered)

\* The table and the children agree: no child is lost, marked without having been told, or left
\* behind by the master's exit.
ChildrenKnown == TypeOK /\ NoChildForgotten /\ ExitingWereTold /\ NoOrphans

\* What one iteration of the master does with a command: a reload reads the configuration and
\* hands over to its workers, and no process is started once a shutdown has begun.
CommandsObeyed == [][NoForkInShutdown /\ ReloadHandsOver /\ HupReloads]_vars

\* SIGTERM and SIGQUIT end the master, each under its condition.
ShutdownEnds == TerminateEnds /\ QuitEnds

\* The master never comes to a stop half way: shutdowns end, old workers go, and service returns.
MasterMovesOn == ShutdownEnds /\ OldWorkersGo /\ ServiceResumes
====
