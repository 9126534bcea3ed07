-------------------------- MODULE AcceptLoopProofs --------------------------
(***************************************************************************)
(* The rate limit of the accept loop, and how late it takes up a signal,   *)
(* proved for every limit, every number of clients, every length of the    *)
(* listen queue and every system the daemon is built for.                  *)
(***************************************************************************)
EXTENDS AcceptLoop, TLAPS

IInv == TypeOK /\ RateInv

(* The daemon starts with nothing accepted.                                *)
LEMMA InitIInv == Init => IInv
  <1>0. ASSUME Init PROVE pc \in {"top", "killed"} /\ watching \in BOOLEAN
    <2>1. PICK build \in Builds : \E start \in Registered(build) :
                                    pc = start[1] /\ watching = start[2]
      BY <1>0 DEF Init
    <2>2. PICK start \in Registered(build) : pc = start[1] /\ watching = start[2]
      BY <2>1
    <2>3. build \in {"linux", "freebsd", "openbsd"}
      BY LoopAssumption
    <2>4. start \in {<<"top", TRUE>>, <<"top", FALSE>>, <<"killed", FALSE>>}
      BY <2>2, <2>3 DEF Registered
    <2>5. CASE start = <<"top", TRUE>>
      BY <2>2, <2>5
    <2>6. CASE start = <<"top", FALSE>>
      BY <2>2, <2>6
    <2>7. CASE start = <<"killed", FALSE>>
      BY <2>2, <2>7
    <2> QED BY <2>4, <2>5, <2>6, <2>7
  <1>1. Init => TypeOK
    <2>1. <<>> \in Seq(Clients) /\ 0 \in 0..max_conn /\ 0 \in 0..Period - 1 /\ 0 \in Nat
      BY LoopAssumption
    <2> QED BY <1>0, <2>1 DEF Init, TypeOK
  <1>2. Init => RateInv
    BY <1>0, LoopAssumption DEF Init, RateInv
  <1> QED BY <1>1, <1>2 DEF IInv

(* Every step of the main thread preserves the types and RateInv.          *)
LEMMA MainIInv == IInv /\ Main => IInv'
  <1> SUFFICES ASSUME IInv, Main PROVE IInv'
    OBVIOUS
  <1> USE LoopAssumption DEF IInv, themes
  <1>1. CASE Top
    <2>1. CASE ~daemon_running
      <3>1. TypeOK'
        BY <1>1, <2>1 DEF Top, TypeOK
      <3>2. RateInv'
        BY <1>1, <2>1 DEF Top, RateInv
      <3> QED BY <3>1, <3>2
    <2>2. CASE daemon_running /\ newSecond
      <3>0. conn_count_this_second' = 0 /\ newSecond' = FALSE
        BY <1>1, <2>2 DEF Top
      <3>a. ~(0 >= max_conn)
        OBVIOUS
      <3>b. pc' = "watch"
        BY <1>1, <2>2, <3>0, <3>a DEF Top
      <3>c. conn_count_this_second' \in 0..max_conn
        BY <3>0
      <3>1. TypeOK'
        BY <1>1, <3>0, <3>b, <3>c, Zenon DEF Top, TypeOK
      <3>2. RateInv'
        BY <1>1, <2>2, <3>0, <3>b DEF Top, TypeOK, RateInv
      <3> QED BY <3>1, <3>2
    <2>3. CASE daemon_running /\ ~newSecond
      <3>0. conn_count_this_second' = conn_count_this_second /\ ~newSecond'
        BY <1>1, <2>3 DEF Top
      <3>1. TypeOK'
        BY <1>1, <2>3, <3>0 DEF Top, TypeOK
      <3>2. RateInv'
        BY <1>1, <2>3, <3>0 DEF Top, TypeOK, RateInv
      <3> QED BY <3>1, <3>2
    <2> QED BY <2>1, <2>2, <2>3
  <1>2. CASE Sleep
    BY <1>2 DEF Sleep, TypeOK, RateInv
  <1>3. CASE WatchThemes
    <2>1. changed' \in BOOLEAN /\ event' \in {"none", "named", "bare"}
      BY <1>3, Zenon DEF WatchThemes, TypeOK
    <2>2. TypeOK'
      BY <1>3, <2>1 DEF WatchThemes, TypeOK
    <2>3. RateInv'
      BY <1>3 DEF WatchThemes, RateInv
    <2> QED BY <2>2, <2>3
  <1>4. CASE Accept
    <2>1. Tail(queue) \in Seq(Clients)
      BY <1>4 DEF Accept, TypeOK, RateInv
    <2> QED BY <1>4, <2>1 DEF Accept, TypeOK, RateInv
  <1>5. CASE RefusePeer
    BY <1>5 DEF RefusePeer, TypeOK, RateInv
  <1>6. CASE StartClient
    <2>1. (conn_count + 1) % Period \in 0..Period - 1
      BY DEF TypeOK
    <2> QED BY <1>6, <2>1 DEF StartClient, TypeOK, RateInv
  <1>7. CASE Save
    BY <1>7 DEF Save, TypeOK, RateInv
  <1> QED BY <1>1, <1>2, <1>3, <1>4, <1>5, <1>6, <1>7 DEF Main

(* So does every step of the clock, of a client and of a signal.           *)
LEMMA NextIInv == IInv /\ [Next]_vars => IInv'
  <1> SUFFICES ASSUME IInv, [Next]_vars PROVE IInv'
    OBVIOUS
  <1> USE LoopAssumption DEF IInv, themes
  <1>1. ASSUME NEW c \in Clients, Connect(c) PROVE IInv'
    <2>1. Append(queue, c) \in Seq(Clients)
      BY DEF TypeOK
    <2> QED BY <1>1, <2>1 DEF Connect, TypeOK, RateInv
  <1>2. CASE Tick
    BY <1>2 DEF Tick, TypeOK, RateInv
  <1>3. CASE Signal
    <2>1. TypeOK'
      BY <1>3 DEF Signal, TypeOK
    <2>2. RateInv'
      BY <1>3 DEF Signal, RateInv
    <2> QED BY <2>1, <2>2
  <1>4. CASE ThemeChange \/ ThemesRemoved
    <2>1. changed' \in BOOLEAN /\ watching' \in BOOLEAN /\ event' \in {"none", "named", "bare"}
      BY <1>4, Zenon DEF ThemeChange, ThemesRemoved, TypeOK
    <2>2. TypeOK'
      BY <1>4, <2>1 DEF ThemeChange, ThemesRemoved, TypeOK
    <2>3. RateInv'
      BY <1>4 DEF ThemeChange, ThemesRemoved, RateInv
    <2> QED BY <2>2, <2>3
  <1>5. CASE UNCHANGED vars
    BY <1>5 DEF vars, TypeOK, RateInv
  <1> QED BY <1>1, <1>2, <1>3, <1>4, <1>5, MainIInv DEF Next

(* One second never sees more than one connection above the limit that     *)
(* daemon_run was configured with, whatever that limit is.                 *)
THEOREM RateLimited == Spec => []RateBound
  <1>1. IInv => RateBound
    BY LoopAssumption DEF IInv, TypeOK, RateInv, RateBound
  <1> QED BY <1>1, InitIInv, NextIInv, PTL DEF Spec

-----------------------------------------------------------------------------
(* A signal in accept() costs one connection; anywhere else the loop looks *)
(* at daemon_running before it accepts again.                              *)
LEMMA NextPrompt == TypeOK /\ StopInv /\ [Next]_vars => StopInv'
  <1> SUFFICES ASSUME TypeOK, StopInv, [Next]_vars PROVE StopInv'
    OBVIOUS
  <1> USE DEF StopInv, StopsPromptly
  <1>1. CASE Top
    BY <1>1 DEF Top
  <1>2. CASE Sleep
    BY <1>2 DEF Sleep
  <1>3. CASE WatchThemes
    BY <1>3 DEF WatchThemes
  <1>4. CASE Accept
    BY <1>4 DEF Accept, TypeOK
  <1>5. CASE RefusePeer
    BY <1>5 DEF RefusePeer
  <1>6. CASE StartClient
    BY <1>6 DEF StartClient
  <1>7. CASE Save
    BY <1>7 DEF Save
  <1>8. ASSUME NEW c \in Clients, Connect(c) PROVE StopInv'
    BY <1>8 DEF Connect
  <1>9. CASE Tick \/ Signal \/ ThemeChange \/ ThemesRemoved
    BY <1>9 DEF Tick, Signal, ThemeChange, ThemesRemoved
  <1>10. CASE UNCHANGED vars
    BY <1>10 DEF vars
  <1> QED BY <1>1, <1>2, <1>3, <1>4, <1>5, <1>6, <1>7, <1>8, <1>9, <1>10 DEF Next, Main

(* After SIGTERM or SIGINT (daemon.c:97-105) at most one more connection   *)
(* is served, whatever thread the kernel interrupts.                       *)
THEOREM StopsAfterOne == Spec => []StopsPromptly
  <1>1. Init => IInv /\ StopInv
    BY InitIInv DEF Init, StopInv, StopsPromptly
  <1>2. IInv /\ StopInv /\ [Next]_vars => (IInv /\ StopInv)'
    BY NextIInv, NextPrompt DEF IInv
  <1>3. StopInv => StopsPromptly
    BY DEF StopInv
  <1> QED BY <1>1, <1>2, <1>3, PTL DEF Spec
=============================================================================
