----------------------------- MODULE AcceptLoop -----------------------------
(***************************************************************************)
(* The main thread of the daemon: the accept loop of daemon_run            *)
(* (src/backend/daemon/daemon.c) with its rate limit, its check for theme  *)
(* changes, the checkpoint every few connections, and the way SIGTERM and  *)
(* SIGINT end it.                                                          *)
(*                                                                         *)
(* Only `now != last_second` is ever asked of the clock, so the two times  *)
(* are kept as one Boolean, which a tick of the clock sets.                *)
(***************************************************************************)
EXTENDS Integers, Sequences, SequencesExt

CONSTANTS
  Clients,   \* programs that connect, any number of times
  Backlog,   \* listen(daemon_socket_fd, 5)
  max_conn,  \* cfg.max_connections_per_sec
  Period,    \* a checkpoint is written every Period connections
  Builds     \* "linux", "freebsd", "openbsd": the systems it is built for

ASSUME LoopAssumption ==
  /\ Backlog \in Nat \ {0}
  /\ max_conn \in Nat \ {0}
  /\ Period \in Nat \ {0}
  /\ Builds \subseteq {"linux", "freebsd", "openbsd"}

VARIABLES
  pc,                      \* where the main thread stands
  daemon_running,          \* cleared by the signal handler
  newSecond,               \* time(NULL) # last_second
  conn_count_this_second,
  conn_count,              \* the static counter, modulo Period
  queue,                   \* connections the kernel holds for accept()
  watching,                \* a directory of themes is watched
  event,                   \* what the watch has to report first
  changed,                 \* a theme file has changed since themes were loaded
  accepted,                \* connections accepted in the present second
  late                     \* connections accepted since the signal

themes == <<watching, event, changed>>

vars == <<pc, daemon_running, newSecond, conn_count_this_second, conn_count,
          queue, themes, accepted, late>>

TypeOK ==
  /\ pc \in {"top", "sleep", "watch", "accept", "peer", "save", "final", "done", "killed"}
  /\ daemon_running \in BOOLEAN
  /\ newSecond \in BOOLEAN
  /\ conn_count_this_second \in 0..max_conn
  /\ conn_count \in 0..Period - 1
  /\ queue \in Seq(Clients)
  /\ watching \in BOOLEAN
  /\ event \in {"none", "named", "bare"}
  /\ changed \in BOOLEAN
  /\ accepted \in Nat
  /\ late \in Nat

(* pledge and cap_enter come before the watch is set up: on FreeBSD open() *)
(* then fails and nothing is watched, on OpenBSD it ends the process.      *)
(* Without HOME, or without either directory, there is no watch.           *)
Registered(build) ==
  CASE build = "linux" -> {<<"top", TRUE>>, <<"top", FALSE>>}
    [] build = "freebsd" -> {<<"top", FALSE>>}
    [] build = "openbsd" -> {<<"killed", FALSE>>, <<"top", FALSE>>}

Init ==
  /\ \E build \in Builds : \E start \in Registered(build) :
       pc = start[1] /\ watching = start[2]
  /\ event = "none"
  /\ daemon_running = TRUE
  /\ newSecond = FALSE
  /\ conn_count_this_second = 0
  /\ conn_count = 0
  /\ queue = <<>>
  /\ changed = FALSE
  /\ accepted = 0
  /\ late = 0

-----------------------------------------------------------------------------
(* The main thread.                                                        *)

(* Mutant of Top: a signal is only noticed when the loop may sleep.        *)
TopIgnoresSignal ==
  /\ pc = "top"
  /\ newSecond' = FALSE
  /\ conn_count_this_second' = IF newSecond THEN 0 ELSE conn_count_this_second
  /\ pc' = IF conn_count_this_second' < max_conn THEN "watch"
           ELSE IF daemon_running THEN "sleep" ELSE "final"
  /\ UNCHANGED <<daemon_running, conn_count, queue, themes, accepted, late>>

(* Mutant of Top: the counter is not reset when a second has passed.       *)
TopNoReset ==
  /\ pc = "top"
  /\ newSecond' = FALSE
  /\ UNCHANGED conn_count_this_second
  /\ pc' = IF ~daemon_running THEN "final"
           ELSE IF conn_count_this_second >= max_conn THEN "sleep" ELSE "watch"
  /\ UNCHANGED <<daemon_running, conn_count, queue, themes, accepted, late>>

(* while (daemon_running): a new second resets the counter, and a full one *)
(* sends the loop to sleep.                                                *)
Top ==
  /\ pc = "top"
  /\ \/ /\ ~daemon_running
        /\ pc' = "final"
        /\ UNCHANGED <<newSecond, conn_count_this_second>>
     \/ /\ daemon_running
        /\ newSecond' = FALSE
        /\ conn_count_this_second' = IF newSecond THEN 0 ELSE conn_count_this_second
        /\ pc' = IF conn_count_this_second' >= max_conn THEN "sleep" ELSE "watch"
  /\ UNCHANGED <<daemon_running, conn_count, queue, themes, accepted, late>>

(* nanosleep(100 ms), which a signal cuts short.                           *)
Sleep ==
  /\ pc = "sleep"
  /\ pc' = "top"
  /\ UNCHANGED <<daemon_running, newSecond, conn_count_this_second, conn_count,
                 queue, themes, accepted, late>>

(* A pending event is read and the whole theme loaded again.  read() fails *)
(* when its buffer, one bare inotify_event, cannot hold the event, which   *)
(* then stays first: that of a file in the directory carries a name.       *)
WatchThemes ==
  /\ pc = "watch"
  /\ pc' = "accept"
  /\ \/ event = "bare" /\ event' = "none" /\ changed' = FALSE
     \/ event # "bare" /\ UNCHANGED <<event, changed>>
  /\ UNCHANGED <<watching, daemon_running, newSecond, conn_count_this_second,
                 conn_count, queue, accepted, late>>

(* Mutant of Accept: the connection is not counted against the limit.      *)
AcceptUncounted ==
  /\ pc = "accept"
  /\ queue # <<>>
  /\ queue' = Tail(queue)
  /\ accepted' = accepted + 1
  /\ late' = IF daemon_running THEN late ELSE late + 1
  /\ pc' = "peer"
  /\ UNCHANGED <<daemon_running, newSecond, conn_count_this_second, conn_count, themes>>

(* accept() returns the oldest connection.                                 *)
Accept ==
  /\ pc = "accept"
  /\ queue # <<>>
  /\ queue' = Tail(queue)
  /\ conn_count_this_second' = conn_count_this_second + 1
  /\ accepted' = accepted + 1
  /\ late' = IF daemon_running THEN late ELSE late + 1
  /\ pc' = "peer"
  /\ UNCHANGED <<daemon_running, newSecond, conn_count, themes>>

(* check_peer_cred: the connection of another user is refused ...          *)
RefusePeer ==
  /\ pc = "peer"
  /\ pc' = "top"
  /\ UNCHANGED <<daemon_running, newSecond, conn_count_this_second, conn_count,
                 queue, themes, accepted, late>>

(* ... and any other gets a thread; every Period-th also a checkpoint.     *)
StartClient ==
  /\ pc = "peer"
  /\ conn_count' = (conn_count + 1) % Period
  /\ pc' = IF conn_count' = 0 THEN "save" ELSE "top"
  /\ UNCHANGED <<daemon_running, newSecond, conn_count_this_second, queue,
                 themes, accepted, late>>

(* Mutant of Save: the last checkpoint falls back into the loop.           *)
SaveStays ==
  /\ pc \in {"save", "final"}
  /\ pc' = "top"
  /\ UNCHANGED <<daemon_running, newSecond, conn_count_this_second, conn_count,
                 queue, themes, accepted, late>>

(* checkpoint_save, in the loop and once more after it; then the socket is *)
(* closed and its path removed.                                            *)
Save ==
  /\ pc \in {"save", "final"}
  /\ pc' = IF pc = "save" THEN "top" ELSE "done"
  /\ UNCHANGED <<daemon_running, newSecond, conn_count_this_second, conn_count,
                 queue, themes, accepted, late>>

Main == Top \/ Sleep \/ WatchThemes \/ Accept \/ RefusePeer \/ StartClient \/ Save

-----------------------------------------------------------------------------
(* Everything else.                                                        *)

Tick ==
  /\ newSecond' = TRUE
  /\ accepted' = 0
  /\ UNCHANGED <<pc, daemon_running, conn_count_this_second, conn_count,
                 queue, themes, late>>

Connect(c) ==
  /\ pc \notin {"done", "killed"}
  /\ Len(queue) < Backlog
  /\ ~Contains(queue, c)
  /\ queue' = Append(queue, c)
  /\ UNCHANGED <<pc, daemon_running, newSecond, conn_count_this_second,
                 conn_count, themes, accepted, late>>

(* handle_signal for SIGTERM and SIGINT.  accept() returns EINTR (the      *)
(* handler is installed without SA_RESTART) if the main thread is in it    *)
(* and is the thread that the kernel interrupts.                           *)
Signal ==
  /\ pc \notin {"done", "killed"}
  /\ daemon_running' = FALSE
  /\ pc' \in IF pc = "accept" THEN {"accept", "top"} ELSE {pc}
  /\ UNCHANGED <<newSecond, conn_count_this_second, conn_count, queue, themes,
                 accepted, late>>

(* Somebody saves a theme file.                                            *)
ThemeChange ==
  /\ pc \notin {"done", "killed"}
  /\ changed' = TRUE
  /\ event' = IF watching /\ event = "none" THEN "named" ELSE event
  /\ UNCHANGED <<pc, watching, daemon_running, newSecond, conn_count_this_second,
                 conn_count, queue, accepted, late>>

(* The watched directory is removed with its files, and with it the watch, *)
(* which the kernel reports in an event without a name.                    *)
ThemesRemoved ==
  /\ pc \notin {"done", "killed"}
  /\ watching
  /\ watching' = FALSE
  /\ changed' = TRUE
  /\ event' = IF event = "none" THEN "bare" ELSE event
  /\ UNCHANGED <<pc, daemon_running, newSecond, conn_count_this_second,
                 conn_count, queue, accepted, late>>

Next ==
  \/ Main
  \/ \E c \in Clients : Connect(c)
  \/ Tick \/ Signal \/ ThemeChange \/ ThemesRemoved

(* The main thread runs whenever it can, and time passes.                  *)
Fairness == WF_vars(Main) /\ WF_vars(Tick)

Spec == Init /\ [][Next]_vars /\ Fairness

-----------------------------------------------------------------------------
(* What the limit does bound: the counter is cleared at the top of the     *)
(* loop, before accept() blocks, so one second sees at most one connection *)
(* more than the configured maximum.                                       *)
RateBound == accepted <= max_conn + 1

(* SIGTERM and SIGINT: at most the one connection that accept() was        *)
(* already waiting for is still served.                                    *)
StopsPromptly == late <= 1

(* Every connection that reaches the listen queue is accepted, the rate    *)
(* limit notwithstanding, unless the daemon is told to stop.               *)
Accepted == \A c \in Clients : Contains(queue, c) ~> (~Contains(queue, c) \/ ~daemon_running)

(* Once told to stop the daemon ends, if anybody is there to wake it.      *)
Stops == (~daemon_running /\ queue # <<>>) ~> (pc = "done")

(* spec.md:577 promises "inotify/kqueue file watching for automatic reload *)
(* on file changes".  Stated in the most favourable way: while clients     *)
(* keep connecting, nobody stops the daemon and the directory of themes is *)
(* there and watched, a change is taken up.                                *)
(* Refuted by TLC: the event of a named file is never read.                *)
ThemeReloads ==
  [](changed /\ [](watching /\ daemon_running) /\ []<>(pc = "peer") => <>~changed)

-----------------------------------------------------------------------------
(* The inductive invariant behind RateBound: what was accepted in this     *)
(* second before the loop looked at the clock is at most one connection.   *)
RateInv ==
  /\ ~newSecond => accepted <= conn_count_this_second + 1
  /\ newSecond => accepted <= 1
  /\ newSecond /\ pc \in {"sleep", "watch", "accept"} => accepted = 0
  /\ pc \in {"watch", "accept"} => conn_count_this_second < max_conn

(* The one behind StopsPromptly: the loop goes into accept() having looked *)
(* at daemon_running, so nothing is overdue there.                         *)
StopInv ==
  /\ daemon_running \/ pc \in {"sleep", "watch", "accept"} => late = 0
  /\ StopsPromptly
=============================================================================
