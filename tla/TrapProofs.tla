----------------------------- MODULE TrapProofs -----------------------------
(* Proofs of the invariants of module Trap, for every period, slack, set of *)
(* time limits and sleep time that TrapAssumption allows.                   *)
EXTENDS Trap, TLAPS

\* The initial value of the interrupt counter exceeds the time limit by more
\* than two periods: one for an interrupt that is pending on entry, one for the
\* period that is already under way.
LEMMA EnoughInterrupts ==
    ASSUME NEW l \in Limits
    PROVE  /\ Interrupts(l) \in 3 .. Word - 1
           /\ Interrupts(l) * Period >= l + 2 * Period
<1>1. /\ Period \in Nat \ {0} /\ Share \in Nat \ {0} /\ Slack \in Nat /\ Slack >= 3
      /\ l \in Nat /\ Word \in Nat
  BY TrapAssumption
<1> DEFINE T == l \div Period
           S == T \div Share
<1>2. T \in Nat /\ l < T * Period + Period
  BY <1>1
<1>3. S \in Nat
  BY <1>1, <1>2
<1>4. Interrupts(l) = T + S + Slack
  BY DEF Interrupts
<1>5. Interrupts(l) < Word
  BY TrapAssumption DEF Interrupts
<1> HIDE DEF T, S
<1>6. Interrupts(l) \in 3 .. Word - 1
  BY <1>1, <1>2, <1>3, <1>4, <1>5
<1>7. PICK r \in Nat : Interrupts(l) = T + 3 + r
  <2>1. S + (Slack - 3) \in Nat /\ T + S + Slack = T + 3 + (S + (Slack - 3))
    BY <1>1, <1>2, <1>3
  <2> QED BY <2>1, <1>4
<1>8. (T + 3 + r) * Period = T * Period + 3 * Period + r * Period
  BY <1>1, <1>2, <1>7
<1>9. r * Period \in Nat /\ T * Period \in Nat /\ 3 * Period = Period + 2 * Period
  BY <1>1, <1>2, <1>7
<1> QED BY <1>1, <1>2, <1>6, <1>7, <1>8, <1>9

-----------------------------------------------------------------------------
(* Control: who may be interrupted, and what the kernel leaves behind.     *)

\* Interrupts are enabled exactly outside the kernel, no interrupt is in
\* service between two steps, and the one that ends a sleep is the last one.
Control ==
    /\ isr = FALSE
    /\ where \in {"user", "halted"} => IF_
    /\ where \in {"kernel", "switch"} => ~ IF_
    /\ where # "user" => ~ tscUser
    /\ where = "halted" => timer_cnt = 1

\* The descriptor tables from the moment a program is prepared.
Tables ==
    where \in {"switch", "user"} => tls \in {prog, NoTls} /\ (int80 <=> class = 32)

ControlInv == TypeOK /\ Control /\ Tables

\* What the type invariant says, without its sets of values.
LEMMA Types == TypeOK => /\ count \in Nat /\ initial \in Nat /\ used \in Nat
                         /\ timer_cnt \in Nat /\ limit \in Nat
BY TrapAssumption DEF TypeOK

\* Every step keeps the control invariant.
LEMMA ControlStep == ControlInv /\ [Next]_vars => ControlInv'
<1> SUFFICES ASSUME ControlInv, [Next]_vars
             PROVE  ControlInv'
  OBVIOUS
<1> USE DEF ControlInv
<1>0. TypeOK /\ Control /\ Tables
  OBVIOUS
<1>c. /\ Period \in Nat /\ SleepTime \in Nat /\ Far \in Nat
      /\ Word \in Nat /\ Word >= 2
      /\ Limits \subseteq Nat \ {0}
  BY TrapAssumption
<1>1. CASE Tick
  <2>1. TypeOK'
    BY <1>0, <1>1 DEF TypeOK, Tick, cpuVars, userVars
  <2>2. Control' /\ Tables'
    BY <1>0, <1>1 DEF Control, Tables, Tick, cpuVars, userVars
  <2> QED BY <2>1, <2>2
<1>2. ASSUME NEW c \in {32, 64}, NEW l \in Limits \cup {0}, run_user(c, l)
      PROVE  ControlInv'
  <2>1. TypeOK'
    <3>1. CASE l = 0
      BY <1>0, <1>2, <1>c, <3>1 DEF TypeOK, run_user, timerVars, NoTls
    <3>2. CASE l # 0
      <4>1. Interrupts(l) \in 0 .. Word - 1
        BY <1>c, <3>2, EnoughInterrupts
      <4> QED BY <1>0, <1>2, <1>c, <3>2, <4>1 DEF TypeOK, run_user, timer_periodic, NoTls
    <3> QED BY <3>1, <3>2
  <2>2. Control' /\ Tables'
    BY <1>0, <1>2 DEF Control, Tables, run_user
  <2> QED BY <2>1, <2>2
<1>3. CASE syscall_return_record_tsc
  BY <1>0, <1>3 DEF TypeOK, Control, Tables, syscall_return_record_tsc, timerVars, userVars
<1>4. ASSUME NEW num \in 0 .. 255, NEW call, where = "user", UserTrap(num, call), irr' \in BOOLEAN
      PROVE  ControlInv'
  <2>1. Result(num, call) \in [trap : 0 .. 255, code : {"zero", "status", "undefined"}]
    BY <1>4 DEF Result, TRAP_SYSCALL, TRAP_ABORT, TRAP_INVALID_SYSCALL
  <2>2. TypeOK'
    <3>1. {boot, IF_, tscUser, irr, isr, int80}' \subseteq BOOLEAN
      BY <1>0, <1>4 DEF TypeOK, UserTrap, eoi, userVars
    <3>2. initial' \in Nat /\ count' \in 0 .. initial'
      BY <1>4, <1>c DEF UserTrap, timer_disable
    <3> QED BY <1>0, <1>4, <2>1, <3>1, <3>2 DEF TypeOK, UserTrap, timer_disable, userVars
  <2>3. Control' /\ Tables'
    BY <1>0, <1>4 DEF Control, Tables, UserTrap, eoi
  <2> QED BY <2>2, <2>3
<1>5. ASSUME NEW num \in {TRAP_GP, TRAP_SYSCALL32, TRAP_SYSCALL},
             NEW call \in {"exit", "abort", "other"}, ProgramTraps(num, call)
      PROVE  ControlInv'
  <2>1. irr' \in BOOLEAN /\ where = "user" /\ UserTrap(num, call)
    BY <1>0, <1>5 DEF ProgramTraps, TypeOK
  <2>2. num \in 0 .. 255
    BY <1>5 DEF TRAP_GP, TRAP_SYSCALL32, TRAP_SYSCALL
  <2> QED BY <1>4, <2>1, <2>2
<1>6. CASE set_thread_area
  BY <1>0, <1>6 DEF TypeOK, Control, Tables, set_thread_area, cpuVars, timerVars
<1>7. CASE TimerCounts
  <2>1. (timer_cnt - 1) % Word \in 0 .. Word - 1
    BY <1>0, <1>c DEF TypeOK
  <2>2. TypeOK'
    BY <1>0, <1>7, <2>1 DEF TypeOK, TimerCounts, eoi, timerVars, userVars
  <2>3. Control' /\ Tables'
    BY <1>0, <1>7 DEF Control, Tables, TimerCounts, Taken, eoi, userVars
  <2> QED BY <2>2, <2>3
<1>8. CASE TimerStops
  <2>1. irr' \in BOOLEAN /\ where = "user" /\ UserTrap(TRAP_TIMER, "none")
    BY <1>8 DEF TimerStops
  <2>2. TRAP_TIMER \in 0 .. 255
    BY DEF TRAP_TIMER
  <2> QED BY <1>4, <2>1, <2>2
<1>9. CASE TimerWakes
  <2>1. {boot, IF_, tscUser, irr, isr, int80}' \subseteq BOOLEAN
    BY <1>0, <1>9 DEF TypeOK, TimerWakes, eoi, userVars
  <2>2. initial' \in Nat /\ count' \in 0 .. initial'
    BY <1>9, <1>c DEF TimerWakes, timer_disable
  <2>3. TypeOK'
    BY <1>0, <1>9, <2>1, <2>2 DEF TypeOK, TimerWakes, timer_disable, userVars
  <2>4. Control' /\ Tables'
    BY <1>0, <1>9 DEF Control, Tables, TimerWakes, eoi
  <2> QED BY <2>3, <2>4
<1>10. CASE powersave_sleep
  <2>1. TypeOK'
    <3>1. timer_cnt' \in 0 .. Word - 1
      BY <1>10, <1>c DEF powersave_sleep, timer_single_shot
    <3> QED BY <1>0, <1>10, <1>c, <3>1 DEF TypeOK, powersave_sleep, timer_single_shot, userVars
  <2>2. Control' /\ Tables'
    BY <1>0, <1>10 DEF Control, Tables, powersave_sleep, timer_single_shot, userVars
  <2> QED BY <2>1, <2>2
<1>11. CASE BootDone
  BY <1>0, <1>11 DEF TypeOK, Control, Tables, BootDone, cpuVars, timerVars
<1>12. CASE UNCHANGED vars
  BY <1>0, <1>12 DEF TypeOK, Control, Tables, vars, cpuVars, timerVars, userVars
<1> QED
  BY <1>1, <1>2, <1>3, <1>5, <1>6, <1>7, <1>8, <1>9, <1>10, <1>11, <1>12 DEF Next, Interrupt

-----------------------------------------------------------------------------
(* Time: what a program with a limit is given.                             *)

Pending == IF irr THEN 1 ELSE 0

\* While a program with a limit is prepared or runs, the timer repeats the
\* period and the counter of interrupts has not run out.
Armed ==
    where \in {"switch", "user"} /\ limit # 0 =>
        /\ mode = "periodic" /\ initial = Period /\ count \in 1 .. Period
        /\ timer_cnt \in 1 .. Interrupts(limit)
        /\ where = "switch" => used = 0 /\ timer_cnt = Interrupts(limit)

\* The interrupts of the program, taken or pending, are at most one more than
\* the periods that ended since it was entered.
NotEarly ==
    where = "user" /\ limit # 0 =>
        (Interrupts(limit) - timer_cnt + Pending) * Period <= used + count + Period - 1

\* The interrupts that are still to come do not let the program run too long.
NotLate ==
    where = "user" /\ limit # 0 =>
        used + count + (timer_cnt - Pending - 1) * Period <= Interrupts(limit) * Period

\* What is left of the last run when the kernel runs or sleeps.
Stopped ==
    where \in {"kernel", "halted"} /\ limit # 0 =>
        /\ outcome.trap = TRAP_TIMER => used >= limit
        /\ used <= (Interrupts(limit) + 1) * Period

TimeInv == Armed /\ NotEarly /\ NotLate /\ Stopped

\* While it runs, a program is within its time.
LEMMA Within ==
    ASSUME ControlInv, TimeInv, where = "user", limit # 0
    PROVE  used <= (Interrupts(limit) + 1) * Period
<1>1. limit \in Limits
  BY DEF ControlInv, TypeOK
<1>2. Interrupts(limit) \in Nat /\ Period \in Nat /\ used \in Nat
  BY <1>1, TrapAssumption, EnoughInterrupts DEF ControlInv, TypeOK
<1>3. count \in 1 .. Period /\ timer_cnt \in 1 .. Interrupts(limit)
  BY DEF TimeInv, Armed
<1>4. used + count + (timer_cnt - Pending - 1) * Period <= Interrupts(limit) * Period
  BY DEF TimeInv, NotLate
<1>5. PICK k \in Nat : timer_cnt - Pending - 1 = k - 1
  <2>1. Pending \in {0, 1}
    BY DEF Pending
  <2>2. timer_cnt - Pending \in Nat /\ timer_cnt - Pending - 1 = (timer_cnt - Pending) - 1
    BY <1>2, <1>3, <2>1
  <2> QED BY <2>2
<1>6. (k - 1) * Period = k * Period - Period /\ k * Period \in Nat
  BY <1>2
<1>7. (Interrupts(limit) + 1) * Period = Interrupts(limit) * Period + Period
  BY <1>2
<1>8. Interrupts(limit) * Period \in Nat
  BY <1>2
<1> QED BY <1>2, <1>3, <1>4, <1>5, <1>6, <1>7, <1>8

\* A program whose last interrupt is taken has had its limit.
LEMMA LimitReached ==
    ASSUME ControlInv, TimeInv, where = "user", limit # 0, irr, timer_cnt = 1
    PROVE  used >= limit
<1>1. limit \in Limits /\ limit \in Nat
  BY TrapAssumption DEF ControlInv, TypeOK
<1>2. /\ Interrupts(limit) \in Nat /\ Period \in Nat /\ used \in Nat
      /\ Interrupts(limit) * Period >= limit + 2 * Period
  BY <1>1, TrapAssumption, EnoughInterrupts DEF ControlInv, TypeOK
<1>3. count \in 1 .. Period
  BY DEF TimeInv, Armed
<1>4. (Interrupts(limit) - 1 + 1) * Period <= used + count + Period - 1
  BY DEF TimeInv, NotEarly, Pending
<1>5. Interrupts(limit) - 1 + 1 = Interrupts(limit)
  BY <1>2
<1>6. Interrupts(limit) * Period \in Nat
  BY <1>2
<1> QED BY <1>1, <1>2, <1>3, <1>4, <1>5, <1>6

\* A trap that ends the program, of the timer or its own.
LEMMA TrapKeepsTime ==
    ASSUME ControlInv, TimeInv, where = "user", NEW num, NEW call,
           UserTrap(num, call),
           Result(num, call).trap = TRAP_TIMER => irr /\ timer_cnt = 1
    PROVE  TimeInv'
<1>1. Armed' /\ NotEarly' /\ NotLate'
  BY DEF Armed, NotEarly, NotLate, UserTrap
<1>2. /\ limit' = limit /\ used' = used
      /\ outcome' = Result(num, call)
  BY DEF UserTrap, userVars
<1>3. limit # 0 => used <= (Interrupts(limit) + 1) * Period
  BY Within
<1>4. limit # 0 /\ Result(num, call).trap = TRAP_TIMER => used >= limit
  BY LimitReached
<1>5. Interrupts(limit)' = Interrupts(limit)
  BY <1>2 DEF Interrupts
<1>6. Stopped'
  BY <1>2, <1>3, <1>4, <1>5 DEF Stopped
<1> QED BY <1>1, <1>6 DEF TimeInv

\* The counter while a program with a limit runs.
LEMMA TickInProgram ==
    ASSUME ControlInv, TimeInv, Tick, where = "user", limit # 0
    PROVE  NotEarly' /\ NotLate' /\ count' \in 1 .. Period
<1>1. limit \in Limits
  BY DEF ControlInv, TypeOK
<1>2. /\ Interrupts(limit) \in Nat /\ Period \in Nat \ {0} /\ used \in Nat
      /\ count \in 1 .. Period /\ timer_cnt \in Nat
      /\ mode = "periodic" /\ initial = Period
  BY <1>1, TrapAssumption, EnoughInterrupts
     DEF ControlInv, TypeOK, TimeInv, Armed
<1>3. ~ irr
  BY DEF ControlInv, Control, Tick
<1>4. /\ where' = "user" /\ limit' = limit /\ timer_cnt' = timer_cnt
      /\ used' = used + 1 /\ Interrupts(limit)' = Interrupts(limit)
  BY DEF Tick, cpuVars, userVars, Interrupts
<1> DEFINE N == Interrupts(limit)
           d == (N - timer_cnt) * Period
           e == (timer_cnt - 1) * Period
<1>5. d \in Int /\ e \in Int /\ N * Period \in Int
  BY <1>2
<1>6. d <= used + count + Period - 1 /\ used + count + e <= N * Period
  BY <1>2, <1>3 DEF TimeInv, NotEarly, NotLate, Pending
<1>7. /\ (N - timer_cnt + 1) * Period = d + Period
      /\ (timer_cnt - 1 - 1) * Period = e - Period
  BY <1>2
<1>8. CASE count > 1
  <2>1. count' = count - 1 /\ ~ irr'
    <3>1. count # 1
      BY <1>2, <1>8
    <3>2. ~ irr'
      BY <1>3, <3>1, Zenon DEF Tick
    <3>3. count' = count - 1
      BY <1>8, Zenon DEF Tick
    <3> QED BY <3>2, <3>3
  <2>2. Pending' = 0
    BY <2>1 DEF Pending
  <2>3. N - timer_cnt + 0 = N - timer_cnt /\ timer_cnt - 0 - 1 = timer_cnt - 1
    BY <1>2
  <2>4. d <= (used + 1) + (count - 1) + Period - 1
    BY <1>2, <1>5, <1>6
  <2>5. (used + 1) + (count - 1) + e <= N * Period
    BY <1>2, <1>5, <1>6
  <2> QED BY <1>2, <1>4, <2>1, <2>2, <2>3, <2>4, <2>5, <1>8 DEF NotEarly, NotLate
<1>9. CASE count = 1
  <2>1. count' = Period /\ irr'
    <3>1. ~ (count > 1)
      BY <1>9
    <3>2. irr'
      BY <1>9, Zenon DEF Tick
    <3>3. count' = Period
      BY <1>2, <3>1, Zenon DEF Tick
    <3> QED BY <3>2, <3>3
  <2>2. Pending' = 1
    BY <2>1 DEF Pending
  <2> HIDE DEF d, e
  <2>3. d + Period <= (used + 1) + Period + Period - 1
    BY <1>2, <1>5, <1>6, <1>9
  <2>4. (used + 1) + Period + (e - Period) <= N * Period
    BY <1>2, <1>5, <1>6, <1>9
  <2> QED BY <1>2, <1>4, <1>7, <2>1, <2>2, <2>3, <2>4 DEF NotEarly, NotLate
<1> QED BY <1>2, <1>8, <1>9

\* An interrupt that is counted while a program with a limit runs.
LEMMA CountInProgram ==
    ASSUME ControlInv, TimeInv, TimerCounts, where = "user", limit # 0
    PROVE  /\ NotEarly' /\ NotLate'
           /\ timer_cnt' \in 1 .. Interrupts(limit)
<1>1. limit \in Limits
  BY DEF ControlInv, TypeOK
<1>2. /\ Interrupts(limit) \in Nat /\ Interrupts(limit) < Word /\ Word \in Nat
      /\ timer_cnt \in 1 .. Interrupts(limit) /\ timer_cnt # 1 /\ irr
  BY <1>1, TrapAssumption, EnoughInterrupts
     DEF ControlInv, TypeOK, TimeInv, Armed, TimerCounts, Taken
<1>3. timer_cnt' = timer_cnt - 1
  <2>1. timer_cnt - 1 \in 0 .. Word - 1
    BY <1>2
  <2>2. (timer_cnt - 1) % Word = timer_cnt - 1
    BY <1>2, <2>1
  <2> QED BY <2>2 DEF TimerCounts
<1>4. /\ where' = "user" /\ limit' = limit /\ used' = used /\ count' = count
      /\ irr' = FALSE /\ Interrupts(limit)' = Interrupts(limit)
  BY DEF TimerCounts, timerVars, userVars, Interrupts
<1>5. Pending = 1 /\ Pending' = 0
  BY <1>2, <1>4 DEF Pending
<1>6. /\ Interrupts(limit) - (timer_cnt - 1) + 0 = Interrupts(limit) - timer_cnt + 1
      /\ (timer_cnt - 1) - 0 - 1 = timer_cnt - 1 - 1
  BY <1>2
<1>7. NotEarly' /\ NotLate'
  BY <1>3, <1>4, <1>5, <1>6 DEF TimeInv, NotEarly, NotLate
<1> QED BY <1>2, <1>3, <1>7

\* The program is entered with all of its interrupts, at most one of them
\* pending.
LEMMA EntryInTime ==
    ASSUME ControlInv, TimeInv, syscall_return_record_tsc, limit # 0
    PROVE  NotEarly' /\ NotLate'
<1>1. limit \in Limits
  BY DEF ControlInv, TypeOK
<1>2. /\ Interrupts(limit) \in Nat /\ Period \in Nat \ {0}
      /\ used = 0 /\ count \in 1 .. Period /\ timer_cnt = Interrupts(limit)
  BY <1>1, TrapAssumption, EnoughInterrupts
     DEF TimeInv, Armed, syscall_return_record_tsc
<1>3. /\ limit' = limit /\ used' = used /\ count' = count /\ irr' = irr
      /\ timer_cnt' = timer_cnt /\ Interrupts(limit)' = Interrupts(limit)
  BY DEF syscall_return_record_tsc, timerVars, userVars, Interrupts
<1>4. Pending' = Pending /\ Pending \in {0, 1}
  BY <1>3 DEF Pending
<1>5. NotEarly'
  <2>1. (Interrupts(limit) - Interrupts(limit) + Pending) * Period <= 0 + count + Period - 1
    <3>1. CASE Pending = 0
      BY <1>2, <3>1
    <3>2. CASE Pending = 1
      BY <1>2, <3>2
    <3> QED BY <1>4, <3>1, <3>2
  <2> QED BY <1>2, <1>3, <1>4, <2>1 DEF NotEarly
<1>6. NotLate'
  <2> DEFINE N == Interrupts(limit)
  <2> HIDE DEF N
  <2>1. N \in Nat
    BY <1>2 DEF N
  <2>2. (N - 0 - 1) * Period = N * Period - Period /\ (N - 1 - 1) * Period = N * Period - 2 * Period
    BY <1>2, <2>1
  <2>3. N * Period \in Nat
    BY <1>2, <2>1
  <2>4. 0 + count + (N - Pending - 1) * Period <= N * Period
    BY <1>2, <1>4, <2>2, <2>3
  <2> QED BY <1>2, <1>3, <1>4, <2>4 DEF NotLate, N
<1> QED BY <1>5, <1>6

\* Every step keeps the time invariant.
LEMMA TimeStep == ControlInv /\ TimeInv /\ [Next]_vars => TimeInv'
<1> SUFFICES ASSUME ControlInv, TimeInv, [Next]_vars
             PROVE  TimeInv'
  OBVIOUS
<1>0. Armed /\ NotEarly /\ NotLate /\ Stopped
  BY DEF TimeInv
<1>c. Period \in Nat \ {0}
  BY TrapAssumption
<1>1. CASE Tick
  <2>1. /\ where' = where /\ limit' = limit /\ timer_cnt' = timer_cnt
        /\ mode' = mode /\ initial' = initial /\ outcome' = outcome
        /\ where # "user" => used' = used
        /\ Interrupts(limit)' = Interrupts(limit)
    BY <1>1 DEF Tick, cpuVars, userVars, Interrupts
  <2>2. Stopped'
    BY <1>0, <2>1 DEF Stopped
  <2>3. NotEarly' /\ NotLate'
    BY <1>1, <2>1, TickInProgram DEF NotEarly, NotLate
  <2>4. where = "switch" /\ limit # 0 => count' \in 1 .. Period
    BY <1>0, <1>1, <1>c DEF Armed, Tick
  <2>5. Armed'
    BY <1>0, <1>1, <2>1, <2>4, TickInProgram DEF Armed
  <2> QED BY <2>2, <2>3, <2>5 DEF TimeInv
<1>2. ASSUME NEW c \in {32, 64}, NEW l \in Limits \cup {0}, run_user(c, l)
      PROVE  TimeInv'
  <2>1. where' = "switch" /\ limit' = l /\ used' = 0
    BY <1>2 DEF run_user
  <2>2. ASSUME l # 0
        PROVE  /\ mode' = "periodic" /\ initial' = Period /\ count' = Period
               /\ timer_cnt' = Interrupts(l) /\ Interrupts(l) \in 3 .. Word - 1
    BY <1>2, <2>2, EnoughInterrupts DEF run_user, timer_periodic
  <2>3. Interrupts(limit)' = Interrupts(l)
    BY <2>1 DEF Interrupts
  <2>4. l # 0 => count' \in 1 .. Period /\ timer_cnt' \in 1 .. Interrupts(l)
    BY <1>c, <2>2, TrapAssumption
  <2>5. Armed'
    BY <2>1, <2>2, <2>3, <2>4 DEF Armed
  <2> QED BY <2>1, <2>5 DEF TimeInv, NotEarly, NotLate, Stopped
<1>3. CASE syscall_return_record_tsc
  <2>1. /\ where = "switch" /\ where' = "user" /\ limit' = limit
        /\ mode' = mode /\ initial' = initial /\ count' = count
        /\ timer_cnt' = timer_cnt /\ Interrupts(limit)' = Interrupts(limit)
    BY <1>3 DEF syscall_return_record_tsc, timerVars, userVars, Interrupts
  <2>2. Armed' /\ Stopped'
    BY <1>0, <2>1 DEF Armed, Stopped
  <2>3. NotEarly' /\ NotLate'
    BY <1>3, <2>1, EntryInTime DEF NotEarly, NotLate
  <2> QED BY <2>2, <2>3 DEF TimeInv
<1>4. ASSUME NEW num \in {TRAP_GP, TRAP_SYSCALL32, TRAP_SYSCALL},
             NEW call \in {"exit", "abort", "other"}, ProgramTraps(num, call)
      PROVE  TimeInv'
  <2>1. Result(num, call).trap # TRAP_TIMER
    BY <1>4 DEF Result, TRAP_GP, TRAP_SYSCALL32, TRAP_SYSCALL, TRAP_ABORT,
                TRAP_INVALID_SYSCALL, TRAP_TIMER
  <2> QED BY <1>4, <2>1, TrapKeepsTime DEF ProgramTraps
<1>5. CASE TimerStops
  BY <1>5, TrapKeepsTime DEF TimerStops, Taken
<1>6. CASE TimerCounts
  <2>1. /\ where = "user" \/ where = "halted"
    BY <1>6 DEF TimerCounts, Taken, ControlInv, Control, TypeOK
  <2>2. where # "halted"
    BY <1>6 DEF TimerCounts, ControlInv, Control
  <2>3. /\ where' = "user" /\ limit' = limit /\ mode' = mode /\ initial' = initial
        /\ count' = count /\ Interrupts(limit)' = Interrupts(limit)
    BY <1>6, <2>1, <2>2 DEF TimerCounts, timerVars, userVars, Interrupts
  <2>4. Armed' /\ Stopped'
    BY <1>0, <1>6, <2>1, <2>2, <2>3, CountInProgram DEF Armed, Stopped
  <2>5. NotEarly' /\ NotLate'
    BY <1>6, <2>1, <2>2, <2>3, CountInProgram DEF NotEarly, NotLate
  <2> QED BY <2>4, <2>5 DEF TimeInv
<1>7. CASE TimerWakes \/ powersave_sleep
  <2>1. /\ where \in {"kernel", "halted"} /\ where' \in {"kernel", "halted"}
        /\ limit' = limit /\ used' = used /\ outcome' = outcome
        /\ Interrupts(limit)' = Interrupts(limit)
    BY <1>7 DEF TimerWakes, powersave_sleep, userVars, Interrupts
  <2> QED BY <1>0, <2>1 DEF TimeInv, Armed, NotEarly, NotLate, Stopped
<1>8. CASE set_thread_area \/ BootDone \/ UNCHANGED vars
  <2>1. /\ where' = where /\ limit' = limit /\ used' = used /\ outcome' = outcome
        /\ mode' = mode /\ initial' = initial /\ count' = count /\ irr' = irr
        /\ timer_cnt' = timer_cnt
    BY <1>8 DEF set_thread_area, BootDone, vars, cpuVars, timerVars, userVars
  <2>2. Interrupts(limit)' = Interrupts(limit) /\ Pending' = Pending
    BY <2>1 DEF Interrupts, Pending
  <2> QED BY <1>0, <2>1, <2>2 DEF TimeInv, Armed, NotEarly, NotLate, Stopped
<1> QED
  BY <1>1, <1>2, <1>3, <1>4, <1>5, <1>6, <1>7, <1>8 DEF Next, Interrupt

-----------------------------------------------------------------------------
(* The theorems.                                                           *)

\* Both invariants hold initially.
LEMMA InitInv == Init => ControlInv /\ TimeInv
<1> SUFFICES ASSUME Init
             PROVE  ControlInv /\ TimeInv
  OBVIOUS
<1>1. TypeOK
  <2>1. {boot, IF_, tscUser, irr, isr, int80} \subseteq BOOLEAN
    BY DEF Init, TimerInit
  <2>2. timer_cnt \in 0 .. Word - 1
    BY TrapAssumption DEF Init, TimerInit
  <2> QED BY <2>1, <2>2 DEF Init, TimerInit, TypeOK, NoTls
<1>2. Control /\ Tables
  BY DEF Init, TimerInit, Control, Tables
<1>3. TimeInv
  BY DEF Init, TimerInit, TimeInv, Armed, NotEarly, NotLate, Stopped
<1> QED BY <1>1, <1>2, <1>3 DEF ControlInv

\* Both invariants hold always.
LEMMA Invariance == Spec => [](ControlInv /\ TimeInv)
<1>1. ControlInv /\ TimeInv /\ [Next]_vars => (ControlInv /\ TimeInv)'
  BY ControlStep, TimeStep
<1> QED BY InitInv, <1>1, PTL DEF Spec

\* Type correctness of the trap and timer code's state.
THEOREM TrapTypes == Spec => []TypeOK
<1>1. ControlInv => TypeOK
  BY DEF ControlInv
<1> QED BY Invariance, <1>1, PTL

\* The kernel is never interrupted, leaves no interrupt in service and never
\* reads the program's clock.
THEOREM KernelStaysUndisturbed == Spec => []KernelUndisturbed
<1>1. ControlInv => KernelUndisturbed
  BY DEF ControlInv, Control, KernelUndisturbed
<1> QED BY Invariance, <1>1, PTL

\* No program finds the descriptors of the program before it.
THEOREM DescriptorsStayFresh == Spec => []DescriptorsFresh
<1>1. ControlInv => DescriptorsFresh
  BY DEF ControlInv, Tables, DescriptorsFresh
<1> QED BY Invariance, <1>1, PTL

\* Whatever interrupt is pending when a program starts, the timer stops it only
\* after its time limit, for every period and every slack of at least three
\* interrupts (the code adds twenty).
THEOREM TimeLimitIsHonoured == Spec => []TimeLimitHonoured
<1>1. TimeInv => TimeLimitHonoured
  BY DEF TimeInv, Stopped, TimeLimitHonoured
<1> QED BY Invariance, <1>1, PTL

\* No program runs more than one period longer than its interrupts.
THEOREM ProgramsStopInTime == Spec => []StoppedInTime
<1>1. ControlInv /\ TimeInv => StoppedInTime
  <2> SUFFICES ASSUME ControlInv, TimeInv, limit # 0
               PROVE  used <= (Interrupts(limit) + 1) * Period
    BY DEF StoppedInTime
  <2>1. CASE where = "user"
    BY <2>1, Within
  <2>2. CASE where = "switch"
    <3>1. used = 0 /\ timer_cnt = Interrupts(limit)
      BY <2>2 DEF TimeInv, Armed
    <3>2. Interrupts(limit) \in Nat /\ Period \in Nat
      BY EnoughInterrupts, TrapAssumption DEF ControlInv, TypeOK
    <3>3. (Interrupts(limit) + 1) * Period \in Nat
      BY <3>2
    <3> QED BY <3>1, <3>3
  <2>3. CASE where \in {"kernel", "halted"}
    BY <2>3 DEF TimeInv, Stopped
  <2> QED BY <2>1, <2>2, <2>3 DEF ControlInv, TypeOK
<1> QED BY Invariance, <1>1, PTL

=============================================================================
