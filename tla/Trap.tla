------------------------------- MODULE Trap -------------------------------
(***************************************************************************)
(* How the processor enters and leaves a judged program, and the local     *)
(* APIC timer that both the time limit and the scheduler's sleep use:      *)
(* kern/trap.cpp, kern/trap_entry.S, lib/lapic.cpp, lib/timer.cpp.         *)
(*                                                                         *)
(* The kernel runs with interrupts disabled; they are enabled only while a *)
(* program runs and while the processor is halted.  The timer never stops: *)
(* timer_disable sets it to the largest count, so an interrupt can become  *)
(* pending at any time, and it is kept (irr) until it can be taken.        *)
(*                                                                         *)
(* Time is counted in steps of the timer's counter.                        *)
(***************************************************************************)
EXTENDS Integers

CONSTANTS
    Period,      \* 0.5 ms, the period of the time limit's interrupts
    Share,       \* 100: the counter gets one more per so many interrupts
    Slack,       \* 20: "add 10ms"
    Limits,      \* time limits of the judge requests
    SleepTime,   \* the scheduler's sleep
    Far,         \* the count -1
    Word         \* 2^64

ASSUME TrapAssumption ==
    /\ {Period, Share, SleepTime, Far} \subseteq Nat \ {0}
    /\ Word \in Nat /\ Word >= 2
    /\ Limits \subseteq Nat \ {0}
    /\ Slack \in Nat /\ Slack >= 3
    /\ \A l \in Limits : (l \div Period) + (l \div Period) \div Share + Slack < Word

VARIABLES
    boot,      \* run_tests: programs without a time limit
    where,     \* "kernel", "switch" (on the way to the program), "user", "halted"
    IF_,       \* interrupts enabled
    tscUser,   \* the time stamp counter counts from the program's start
    mode, initial, count,  \* the timer
    irr, isr,  \* its interrupt is pending, is in service
    timer_cnt, \* __lapic_timer_cnt
    tls, int80,\* descriptor tables: who set the TLS entry, int 0x80 allowed
    prog,      \* 0 or 1, another one for each program
    class,     \* 32 or 64
    limit,     \* user_time_limit_ns; 0: none
    used,      \* time the program ran (with a limit)
    outcome    \* trap_num and return_code of the last run

cpuVars   == <<where, IF_, tscUser>>
timerVars == <<mode, initial, count>>
userVars  == <<boot, tls, int80, prog, class, limit>>
vars == <<cpuVars, timerVars, irr, isr, timer_cnt, userVars, used, outcome>>

TRAP_TIMER           == 32
TRAP_GP              == 13
TRAP_SYSCALL32       == 128
TRAP_ABORT           == 253
TRAP_INVALID_SYSCALL == 254
TRAP_SYSCALL         == 255

\* The TLS entry of the descriptor table is empty.
NoTls == 2

\* The timer was given no count yet; outstanding interrupts are acknowledged.
TimerInit ==
    /\ mode = "oneshot" /\ initial = 0 /\ count = 0
    /\ irr = FALSE /\ isr = FALSE
    /\ timer_cnt = 0

Init ==
    /\ boot = TRUE
    /\ where = "kernel" /\ IF_ = FALSE /\ tscUser = FALSE
    /\ TimerInit
    /\ tls = NoTls /\ int80 = FALSE
    /\ prog = 0 /\ class = 64 /\ limit = 0 /\ used = 0
    /\ outcome = [trap |-> 0, code |-> "zero"]

-----------------------------------------------------------------------------
(* The timer and its interrupt controller.                                 *)

timer_disable ==
    /\ initial' = Far /\ count' = Far
    /\ UNCHANGED mode

\* A count that is rounded down to nothing: the timer does not run.
SingleShotNever(n) ==
    /\ timer_cnt' = 1
    /\ mode' = "oneshot" /\ initial' = n /\ count' = 0

timer_single_shot(n) ==
    /\ timer_cnt' = 1
    /\ mode' = "oneshot" /\ initial' = n /\ count' = n

\* A time limit whose timer runs only once.
PeriodicOnce(n, cnt) ==
    /\ timer_cnt' = cnt
    /\ mode' = "oneshot" /\ initial' = n /\ count' = n

timer_periodic(n, cnt) ==
    /\ timer_cnt' = cnt
    /\ mode' = "periodic" /\ initial' = n /\ count' = n

\* An interrupt that stays in service.
EoiLost == isr' = TRUE

eoi == isr' = FALSE

\* The counter.  An interrupt that can be taken is taken before it goes on.
Tick ==
    /\ count > 0
    /\ ~ (IF_ /\ irr /\ ~ isr)
    /\ irr' = (irr \/ count = 1)
    /\ count' = IF count > 1 THEN count - 1
                ELSE IF mode = "periodic" THEN initial ELSE 0
    /\ used' = IF where = "user" /\ limit # 0 THEN used + 1 ELSE used
    /\ UNCHANGED <<cpuVars, mode, initial, isr, timer_cnt, userVars, outcome>>

-----------------------------------------------------------------------------
(* Into the program.                                                       *)

\* No time added for interrupts that are early.
InterruptsTight(l) == l \div Period

\* The initial value of __lapic_timer_cnt.
Interrupts(l) == (l \div Period) + (l \div Period) \div Share + Slack

\* A program that finds the descriptors of the program before it.
RunKeepsTables(c, l) ==
    /\ where = "kernel"
    /\ l = 0 <=> boot
    /\ where' = "switch"
    /\ prog' = 1 - prog /\ class' = c /\ limit' = l /\ used' = 0
    /\ int80' = (int80 \/ c = 32)
    /\ IF l # 0 THEN timer_periodic(Period, Interrupts(l))
                ELSE UNCHANGED <<timerVars, timer_cnt>>
    /\ UNCHANGED <<boot, IF_, tscUser, irr, isr, tls, outcome>>

\* run_user_64 and run_user_32, up to the start of syscall_return_record_tsc:
\* the TLS entry is cleared, the gate of int 0x80 is opened or closed.
run_user(c, l) ==
    /\ where = "kernel"
    /\ l = 0 <=> boot
    /\ where' = "switch"
    /\ prog' = 1 - prog /\ class' = c /\ limit' = l /\ used' = 0
    /\ tls' = NoTls
    /\ int80' = (c = 32)
    /\ IF l # 0 THEN timer_periodic(Period, Interrupts(l))
                ELSE UNCHANGED <<timerVars, timer_cnt>>
    /\ UNCHANGED <<boot, IF_, tscUser, irr, isr, outcome>>

\* The caches are flushed, the time stamp counter is reset, and sysret enters
\* the program with interrupts enabled.
syscall_return_record_tsc ==
    /\ where = "switch"
    /\ where' = "user"
    /\ IF_' = TRUE
    /\ tscUser' = TRUE
    /\ UNCHANGED <<timerVars, irr, isr, timer_cnt, userVars, used, outcome>>

-----------------------------------------------------------------------------
(* Out of the program.                                                     *)

\* The result of run_user_64 and run_user_32 for trap num with the request
\* call.  The abort() of a 64-bit program leaves return_code as it was.
Result(num, call) ==
    LET asks == num = IF class = 64 THEN TRAP_SYSCALL ELSE TRAP_SYSCALL32
    IN  IF asks /\ call = "exit"
        THEN [trap |-> TRAP_SYSCALL, code |-> "status"]
        ELSE IF asks /\ call = "abort" /\ class = 64
        THEN [trap |-> TRAP_ABORT, code |-> "undefined"]
        ELSE IF asks \/ num = TRAP_SYSCALL
        THEN [trap |-> TRAP_INVALID_SYSCALL, code |-> "zero"]
        ELSE [trap |-> num, code |-> "zero"]

\* The handler leaves the time stamp counter as the program sees it.
TrapKeepsTsc(num, call) ==
    /\ where' = "kernel" /\ IF_' = FALSE
    /\ eoi
    /\ timer_disable
    /\ outcome' = Result(num, call)
    /\ UNCHANGED <<tscUser, timer_cnt, userVars, used>>

\* trap_handler for a trap from the program: back to the kernel, which waits
\* in run_user with interrupts disabled.
UserTrap(num, call) ==
    /\ where' = "kernel" /\ IF_' = FALSE
    /\ tscUser' = FALSE
    /\ eoi
    /\ timer_disable
    /\ outcome' = Result(num, call)
    /\ UNCHANGED <<timer_cnt, userVars, used>>

\* The program's own trap: the syscall instruction, int 0x80 where it is
\* allowed, an exception (int 0x80 elsewhere is one).
ProgramTraps(num, call) ==
    /\ where = "user"
    /\ num = TRAP_SYSCALL32 => int80
    /\ UserTrap(num, call)
    /\ UNCHANGED irr

\* int 0x80 with set_thread_area and a valid descriptor returns to the program.
set_thread_area ==
    /\ where = "user"
    /\ int80
    /\ tls' = prog
    /\ UNCHANGED <<cpuVars, timerVars, irr, isr, timer_cnt,
                   boot, int80, prog, class, limit, used, outcome>>

\* The interrupt is taken.
Taken == IF_ /\ irr /\ ~ isr

\* __trap_32 counts, and goes on where it was.
TimerCounts ==
    /\ Taken
    /\ timer_cnt # 1
    /\ irr' = FALSE
    /\ timer_cnt' = (timer_cnt - 1) % Word
    /\ eoi
    /\ where' = IF where = "halted" THEN "kernel" ELSE where
    /\ UNCHANGED <<IF_, tscUser, timerVars, userVars, used, outcome>>

\* __trap_32 when it counted to zero, in the program: the time limit.
TimerStops ==
    /\ Taken
    /\ timer_cnt = 1
    /\ where = "user"
    /\ irr' = FALSE
    /\ UserTrap(TRAP_TIMER, "none")

-----------------------------------------------------------------------------
(* Sleep.                                                                  *)

\* sti delays interrupts until hlt was executed, which follows it directly.
powersave_sleep ==
    /\ where = "kernel" /\ ~ boot
    /\ where' = "halted" /\ IF_' = TRUE
    /\ timer_single_shot(SleepTime)
    /\ UNCHANGED <<tscUser, irr, isr, userVars, used, outcome>>

\* trap_handler for the timer interrupt in the kernel: return with interrupts
\* disabled.
TimerWakes ==
    /\ Taken
    /\ timer_cnt = 1
    /\ where \in {"kernel", "halted"}
    /\ irr' = FALSE
    /\ where' = "kernel" /\ IF_' = FALSE /\ tscUser' = FALSE
    /\ eoi
    /\ timer_disable
    /\ UNCHANGED <<timer_cnt, userVars, used, outcome>>

\* main starts the server.
BootDone ==
    /\ boot /\ where = "kernel"
    /\ boot' = FALSE
    /\ UNCHANGED <<cpuVars, timerVars, irr, isr, timer_cnt,
                   tls, int80, prog, class, limit, used, outcome>>

-----------------------------------------------------------------------------
Interrupt == TimerCounts \/ TimerStops \/ TimerWakes

Next ==
    \/ Tick
    \/ \E c \in {32, 64}, l \in Limits \cup {0} : run_user(c, l)
    \/ syscall_return_record_tsc
    \/ \E num \in {TRAP_GP, TRAP_SYSCALL32, TRAP_SYSCALL},
          call \in {"exit", "abort", "other"} : ProgramTraps(num, call)
    \/ set_thread_area
    \/ Interrupt
    \/ powersave_sleep
    \/ BootDone

\* The timer counts, and the processor takes the interrupts that it can take.
Spec == Init /\ [][Next]_vars /\ WF_vars(Tick) /\ WF_vars(Interrupt)

-----------------------------------------------------------------------------
(* Properties.                                                             *)

\* The variables have their types.
TypeOK ==
    /\ where \in {"kernel", "switch", "user", "halted"}
    /\ {boot, IF_, tscUser, irr, isr, int80} \subseteq BOOLEAN
    /\ mode \in {"oneshot", "periodic"}
    /\ initial \in Nat /\ count \in 0 .. initial
    /\ timer_cnt \in 0 .. Word - 1
    /\ tls \in {0, 1, NoTls} /\ prog \in {0, 1}
    /\ class \in {32, 64} /\ limit \in Limits \cup {0} /\ used \in Nat
    /\ outcome \in [trap : 0 .. 255, code : {"zero", "status", "undefined"}]

\* A program that was stopped by the timer has had its time limit: neither an
\* interrupt left pending by the program before it, nor the one that became
\* pending on the way into the program, nor the rounding of the limit takes
\* any of it away.
TimeLimitHonoured ==
    where = "kernel" /\ limit # 0 /\ outcome.trap = TRAP_TIMER => used >= limit

\* No program runs longer than the interrupts it was given, plus one period.
StoppedInTime == limit # 0 => used <= (Interrupts(limit) + 1) * Period

\* The kernel never runs with interrupts enabled, with the timer's interrupt
\* still in service (no other would come), or with the program's clock.
KernelUndisturbed ==
    where \in {"kernel", "switch"} => ~ IF_ /\ ~ isr /\ ~ tscUser

\* A program finds no TLS descriptor but its own, and int 0x80 exactly if it
\* is a 32-bit program, whatever ran before it.
DescriptorsFresh ==
    where = "user" => tls \in {prog, NoTls} /\ (int80 <=> class = 32)

\* A program with a time limit comes to an end, even if it does nothing for it.
ProgramEnds == where = "user" /\ limit # 0 ~> where = "kernel"

\* The processor does not sleep for ever.
SleepEnds == where = "halted" ~> where = "kernel"

=============================================================================
