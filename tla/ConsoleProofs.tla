---------------------------- MODULE ConsoleProofs ----------------------------
(***************************************************************************)
(* Proofs about Console, for any number of CPUs, any texts and any number  *)
(* of exceptions and panics, and about Uart, for every speed the divisor   *)
(* has room for.                                                           *)
(***************************************************************************)
EXTENDS Console, Uart, SequenceTheorems, TLAPS

(***************************************************************************)
(* The lock of the console.                                                *)
(***************************************************************************)
\* What a CPU is in, and a stack of it.
IsCall(f) == DOMAIN f = {"at", "text", "todo", "nmi"} /\ f.at \in {"lock", "write", "leave", "loop"}
IsStack(s) == /\ \E S : s \in Seq(S)
              /\ \A i \in 1..Len(s) : IsCall(s[i])
\* Call i is the one that writes.
OnlyWriter(s, i) == i \in 1..Len(s) /\ \A j \in 1..Len(s) : s[j].at = "write" <=> j = i
NoWriter(s) == \A j \in 1..Len(s) : s[j].at # "write"
\* A return to Linux that has a writer below it is still behind its println!.
Behind(s, j) == s[j].at = "leave" => j + 1 \in 1..Len(s) /\ s[j + 1].at = "lock"
Guarded(s) == \A i \in 1..Len(s), j \in 1..Len(s) : i < j /\ s[i].at = "write" => Behind(s, j)
\* What is put on a stack: nothing writes yet, and println! is on every return.
Pushed(t) == IsStack(t) /\ NoWriter(t) /\ \A j \in 1..Len(t) : Behind(t, j)

\* The lock is held by the CPU that has a call past lock(), and by no other:
\* one call of one CPU writes.
LockInv ==
    /\ holder \in Cpu \cup {NoCpu}
    /\ max_level \in Levels
    /\ DOMAIN stack = Cpu
    /\ \A c \in Cpu : /\ IsStack(stack[c]) /\ Guarded(stack[c])
                      /\ holder = c => \E i \in 1..Len(stack[c]) : OnlyWriter(stack[c], i)
                      /\ holder # c => NoWriter(stack[c])

\* A change to one stack that keeps its shape keeps the invariant if the lock
\* changes with it.
LEMMA OneStack ==
    ASSUME LockInv, NEW c \in Cpu, NEW s, stack' = [stack EXCEPT ![c] = s], max_level' = max_level,
           IsStack(s), Guarded(s),
           \/ holder' = c /\ holder \in {c, NoCpu} /\ \E i \in 1..Len(s) : OnlyWriter(s, i)
           \/ holder' = NoCpu /\ holder \in {c, NoCpu} /\ NoWriter(s)
           \/ holder' = holder /\ holder # c /\ NoWriter(s)
    PROVE  LockInv'
<1>1. DOMAIN stack' = Cpu /\ stack'[c] = s /\ \A e \in Cpu \ {c} : stack'[e] = stack[e]
    BY DEF LockInv
<1>2. holder' \in Cpu \cup {NoCpu} /\ max_level' \in Levels
    BY DEF LockInv
<1>3. ASSUME NEW e \in Cpu
      PROVE  /\ IsStack(stack'[e]) /\ Guarded(stack'[e])
             /\ holder' = e => \E i \in 1..Len(stack'[e]) : OnlyWriter(stack'[e], i)
             /\ holder' # e => NoWriter(stack'[e])
  <2>1. CASE e = c
      BY <1>1, <2>1, NoCpuAssumption
  <2>2. CASE e # c
    <3>1. stack'[e] = stack[e]
        BY <1>1, <2>2
    <3>2. holder' = e <=> holder = e
        BY <2>2, NoCpuAssumption
    <3> QED
        BY <3>1, <3>2 DEF LockInv
  <2> QED
      BY <2>1, <2>2
<1> QED
    BY <1>1, <1>2, <1>3 DEF LockInv

\* The top of a stack is replaced.
LEMMA TopReplaced ==
    ASSUME NEW s, IsStack(s), s # <<>>, NEW f, IsCall(f)
    PROVE  LET t == [s EXCEPT ![Len(s)] = f]
           IN  IsStack(t) /\ Len(t) = Len(s) /\ Len(s) \in 1..Len(s)
               /\ t[Len(s)] = f /\ \A i \in 1..Len(s) : i # Len(s) => t[i] = s[i]
<1> DEFINE t == [s EXCEPT ![Len(s)] = f]
<1>1. PICK S : s \in Seq(S)
    BY DEF IsStack
<1>2. Len(s) \in Nat \ {0} /\ DOMAIN s = 1..Len(s)
    BY <1>1
<1>3. t \in Seq(S \cup {f}) /\ Len(t) = Len(s) /\ t[Len(s)] = f
          /\ \A i \in 1..Len(s) : i # Len(s) => t[i] = s[i]
  <2>1. s \in Seq(S \cup {f}) /\ Len(s) \in 1..Len(s) /\ f \in S \cup {f}
      BY <1>1, <1>2
  <2> QED
      BY <2>1, ExceptSeq
<1>4. Len(s) \in 1..Len(s)
    BY <1>2
<1> HIDE DEF t
<1>5. IsStack(t)
    BY <1>2, <1>3 DEF IsStack
<1>6. IsStack(t) /\ Len(t) = Len(s) /\ Len(s) \in 1..Len(s)
      /\ t[Len(s)] = f /\ \A i \in 1..Len(s) : i # Len(s) => t[i] = s[i]
    BY <1>3, <1>4, <1>5
<1> QED
    BY <1>6, Zenon DEF t

\* A stack of one call.
LEMMA OneCall ==
    ASSUME NEW f, IsCall(f)
    PROVE  IsStack(<<f>>) /\ Len(<<f>>) = 1 /\ <<f>>[1] = f
<1> DEFINE s == <<f>>
<1>1. s \in Seq({f}) /\ Len(s) = 1 /\ s[1] = f
    OBVIOUS
<1> HIDE DEF s
<1>2. IsStack(s)
    BY <1>1 DEF IsStack
<1> QED
    BY <1>1, <1>2 DEF s

\* The calls that a record leads to wait for the lock.
LEMMA CallsWait ==
    ASSUME NEW r, NEW nmi
    PROVE  /\ Pushed(Calls(r, nmi))
           /\ r.level <= max_level => Len(Calls(r, nmi)) = 1 /\ Calls(r, nmi)[1].at = "lock"
<1> DEFINE f == Call(r.text, nmi)
<1>1. IsCall(f) /\ f.at = "lock"
    BY DEF IsCall, Call
<1> HIDE DEF f
<1>2. CASE r.level <= max_level
  <2> DEFINE s == Calls(r, nmi)
  <2>1. s = <<f>>
      BY <1>2 DEF Calls, f
  <2>2. IsStack(s) /\ Len(s) = 1 /\ s[1] = f
      BY <1>1, <2>1, OneCall
  <2> HIDE DEF s
  <2>3. Pushed(s) /\ s[1].at = "lock"
      BY <1>1, <2>2 DEF Pushed, NoWriter, Behind
  <2> QED
      BY <2>2, <2>3 DEF s
<1>3. CASE ~(r.level <= max_level)
  <2>1. Calls(r, nmi) = <<>>
      BY <1>3 DEF Calls
  <2>2. <<>> \in Seq({}) /\ Len(<<>>) = 0
      OBVIOUS
  <2> QED
      BY <1>3, <2>1, <2>2 DEF Pushed, IsStack, NoWriter
<1> QED
    BY <1>2, <1>3

\* The elements of two stacks put together.
LEMMA Together ==
    ASSUME NEW s, IsStack(s), NEW t, IsStack(t)
    PROVE  /\ IsStack(s \o t) /\ Len(s \o t) = Len(s) + Len(t) /\ Len(s) \in Nat /\ Len(t) \in Nat
           /\ \A i \in 1..Len(s) : i \in 1..Len(s \o t) /\ (s \o t)[i] = s[i]
           /\ \A i \in 1..Len(s \o t) : i > Len(s) => i - Len(s) \in 1..Len(t) /\ (s \o t)[i] = t[i - Len(s)]
<1> DEFINE u == s \o t
<1>1. PICK S : s \in Seq(S)
    BY DEF IsStack
<1>2. PICK T : t \in Seq(T)
    BY DEF IsStack
<1>3. s \in Seq(S \cup T) /\ t \in Seq(S \cup T)
    BY <1>1, <1>2
<1>4. /\ u \in Seq(S \cup T) /\ Len(u) = Len(s) + Len(t) /\ Len(s) \in Nat /\ Len(t) \in Nat
      /\ \A i \in 1..Len(s) : i \in 1..Len(u) /\ u[i] = s[i]
      /\ \A i \in 1..Len(u) : i > Len(s) => i - Len(s) \in 1..Len(t) /\ u[i] = t[i - Len(s)]
    BY <1>3
<1> HIDE DEF u
<1>5. ASSUME NEW i \in 1..Len(u) PROVE IsCall(u[i])
  <2>1. CASE i \in 1..Len(s)
      BY <1>4, <2>1 DEF IsStack
  <2>2. CASE i > Len(s)
      BY <1>4, <2>2 DEF IsStack
  <2> QED
      BY <1>4, <2>1, <2>2
<1>6. IsStack(u)
    BY <1>4, <1>5 DEF IsStack
<1> QED
    BY <1>4, <1>6 DEF u

\* Two sequences of calls can be put together.
LEMMA PushedTogether ==
    ASSUME NEW s, Pushed(s), NEW t, Pushed(t)
    PROVE  Pushed(s \o t)
<1> DEFINE u == s \o t
<1>1. /\ IsStack(u) /\ Len(u) = Len(s) + Len(t) /\ Len(s) \in Nat /\ Len(t) \in Nat
      /\ \A i \in 1..Len(s) : i \in 1..Len(u) /\ u[i] = s[i]
      /\ \A i \in 1..Len(u) : i > Len(s) => i - Len(s) \in 1..Len(t) /\ u[i] = t[i - Len(s)]
    BY Together DEF Pushed
<1> HIDE DEF u
<1>2. ASSUME NEW j \in 1..Len(u) PROVE u[j].at # "write" /\ Behind(u, j)
  <2>1. CASE j \in 1..Len(s)
    <3>1. u[j] = s[j] /\ s[j].at # "write" /\ Behind(s, j)
        BY <1>1, <2>1 DEF Pushed, NoWriter
    <3> QED
        BY <1>1, <3>1 DEF Behind
  <2>2. CASE j > Len(s)
    <3> DEFINE k == j - Len(s)
    <3>1. k \in 1..Len(t) /\ u[j] = t[k] /\ j = k + Len(s)
        BY <1>1, <2>2
    <3>2. t[k].at # "write" /\ Behind(t, k)
        BY <3>1 DEF Pushed, NoWriter
    <3>3. k + 1 \in 1..Len(t) => j + 1 \in 1..Len(u) /\ u[j + 1] = t[k + 1]
      <4> SUFFICES ASSUME k + 1 \in 1..Len(t) PROVE j + 1 \in 1..Len(u) /\ u[j + 1] = t[k + 1]
          OBVIOUS
      <4>1. j + 1 \in 1..Len(u) /\ j + 1 > Len(s) /\ (j + 1) - Len(s) = k + 1
          BY <1>1, <2>2, <3>1
      <4> QED
          BY <1>1, <4>1
    <3> HIDE DEF k
    <3> QED
        BY <3>1, <3>2, <3>3 DEF Behind
  <2> QED
      BY <1>1, <2>1, <2>2
<1>3. Pushed(u)
    BY <1>1, <1>2 DEF Pushed, NoWriter
<1> QED
    BY <1>3 DEF u

\* Calls are put on top of a stack.
LEMMA CallsOnTop ==
    ASSUME NEW s, IsStack(s), Guarded(s), NEW t, Pushed(t)
    PROVE  /\ IsStack(s \o t) /\ Guarded(s \o t)
           /\ NoWriter(s) => NoWriter(s \o t)
           /\ \A i \in 1..Len(s) : OnlyWriter(s, i) => i \in 1..Len(s \o t) /\ OnlyWriter(s \o t, i)
<1> DEFINE u == s \o t
<1>1. /\ IsStack(u) /\ Len(u) = Len(s) + Len(t) /\ Len(s) \in Nat /\ Len(t) \in Nat
      /\ \A i \in 1..Len(s) : i \in 1..Len(u) /\ u[i] = s[i]
      /\ \A i \in 1..Len(u) : i > Len(s) => i - Len(s) \in 1..Len(t) /\ u[i] = t[i - Len(s)]
    BY Together DEF Pushed
<1> HIDE DEF u
<1>2. ASSUME NEW j \in 1..Len(u), j > Len(s) PROVE u[j].at # "write" /\ Behind(u, j)
  <2> DEFINE k == j - Len(s)
  <2>1. k \in 1..Len(t) /\ u[j] = t[k] /\ j = k + Len(s)
      BY <1>1, <1>2
  <2>2. t[k].at # "write" /\ Behind(t, k)
      BY <2>1 DEF Pushed, NoWriter
  <2>3. k + 1 \in 1..Len(t) => j + 1 \in 1..Len(u) /\ u[j + 1] = t[k + 1]
    <3> SUFFICES ASSUME k + 1 \in 1..Len(t) PROVE j + 1 \in 1..Len(u) /\ u[j + 1] = t[k + 1]
        OBVIOUS
    <3>1. j + 1 \in 1..Len(u) /\ j + 1 > Len(s) /\ (j + 1) - Len(s) = k + 1
        BY <1>1, <1>2, <2>1
    <3> QED
        BY <1>1, <3>1
  <2> HIDE DEF k
  <2> QED
      BY <2>1, <2>2, <2>3 DEF Behind
<1>3. ASSUME NEW j \in 1..Len(u) PROVE j \in 1..Len(s) \/ j > Len(s)
    BY <1>1
<1>4. NoWriter(s) => NoWriter(u)
    BY <1>1, <1>2, <1>3 DEF NoWriter
<1>5. Guarded(u)
  <2> SUFFICES ASSUME NEW i \in 1..Len(u), NEW j \in 1..Len(u), i < j, u[i].at = "write"
               PROVE  Behind(u, j)
      BY DEF Guarded
  <2>1. CASE j > Len(s)
      BY <1>2, <2>1
  <2>2. CASE j \in 1..Len(s)
    <3>1. i \in 1..Len(s) /\ u[i] = s[i] /\ u[j] = s[j]
        BY <1>1, <2>2
    <3>2. Behind(s, j)
        BY <2>2, <3>1 DEF Guarded
    <3> QED
        BY <1>1, <3>1, <3>2 DEF Behind
  <2> QED
      BY <1>3, <2>1, <2>2
<1>6. ASSUME NEW i \in 1..Len(s), OnlyWriter(s, i) PROVE i \in 1..Len(u) /\ OnlyWriter(u, i)
  <2>1. i \in 1..Len(u) /\ \A j \in 1..Len(s) : s[j].at = "write" <=> j = i
      BY <1>1, <1>6 DEF OnlyWriter
  <2>2. ASSUME NEW j \in 1..Len(u) PROVE u[j].at = "write" <=> j = i
    <3>1. CASE j \in 1..Len(s)
        BY <1>1, <2>1, <3>1
    <3>2. CASE j > Len(s)
      <4>1. u[j].at # "write"
          BY <1>2, <3>2
      <4>2. j # i
          BY <1>1, <3>2
      <4> QED
          BY <4>1, <4>2
    <3> QED
        BY <1>3, <3>1, <3>2
  <2> QED
      BY <2>1, <2>2 DEF OnlyWriter
<1> QED
    BY <1>1, <1>4, <1>5, <1>6 DEF u

\* So the invariant is kept by whatever is pushed.
LEMMA LockPush ==
    ASSUME LockInv, NEW c \in Cpu, NEW t, Pushed(t), Push(c, t), UNCHANGED <<holder, max_level>>
    PROVE  LockInv'
<1> DEFINE u == stack[c] \o t
<1>1. stack' = [stack EXCEPT ![c] = u] /\ holder' = holder /\ max_level' = max_level
    BY DEF Push
<1>2. /\ IsStack(u) /\ Guarded(u)
      /\ NoWriter(stack[c]) => NoWriter(u)
      /\ \A i \in 1..Len(stack[c]) : OnlyWriter(stack[c], i) => i \in 1..Len(u) /\ OnlyWriter(u, i)
    BY CallsOnTop DEF LockInv
<1> HIDE DEF u
<1>3. CASE holder = c
  <2>1. \E i \in 1..Len(u) : OnlyWriter(u, i)
      BY <1>2, <1>3 DEF LockInv
  <2> QED
      BY <1>1, <1>2, <1>3, <2>1, OneStack
<1>4. CASE holder # c
  <2>1. NoWriter(u)
      BY <1>2, <1>4 DEF LockInv
  <2> QED
      BY <1>1, <1>2, <1>4, <2>1, OneStack
<1> QED
    BY <1>3, <1>4

\* deactivate_vmm() prints at every level, before it returns to Linux.
LEMMA DeactivatePushed == LockInv => Pushed(Deactivate)
<1> SUFFICES ASSUME LockInv PROVE Pushed(Deactivate)
    OBVIOUS
<1> DEFINE f == [at |-> "leave", text |-> <<>>, todo |-> <<>>, nmi |-> FALSE]
           s == <<f>>
           t == Log(Off, FALSE)
           u == s \o t
<1>1. IsCall(f) /\ f.at = "leave"
    BY DEF IsCall
<1> HIDE DEF f
<1>2. IsStack(s) /\ Len(s) = 1 /\ s[1] = f
    BY <1>1, OneCall
<1>3. Pushed(t) /\ Len(t) = 1 /\ t[1].at = "lock"
  <2>1. Off <= max_level
      BY LevelsAssumption DEF LockInv, Off, Trace
  <2> QED
      BY <2>1, CallsWait DEF Log
<1>4. Deactivate = u
    BY DEF Deactivate, Then, f
<1> HIDE DEF s, t
<1>5. /\ IsStack(u) /\ Len(u) = Len(s) + Len(t)
      /\ \A i \in 1..Len(s) : i \in 1..Len(u) /\ u[i] = s[i]
      /\ \A i \in 1..Len(u) : i > Len(s) => i - Len(s) \in 1..Len(t) /\ u[i] = t[i - Len(s)]
    BY <1>2, <1>3, Together, Zenon DEF Pushed
<1> HIDE DEF u
<1>6. Len(u) = 2 /\ u[1] = f /\ u[2] = t[1]
  <2>1. Len(u) = 2 /\ 1 \in 1..Len(s) /\ 2 \in 1..Len(u) /\ 2 > Len(s) /\ 2 - Len(s) = 1
      BY <1>2, <1>3, <1>5
  <2> QED
      BY <1>2, <1>5, <2>1
<1>7. ASSUME NEW j \in 1..Len(u) PROVE u[j].at # "write" /\ Behind(u, j)
  <2>1. CASE j = 1
    <3>1. u[j].at = "leave" /\ j + 1 = 2 /\ 2 \in 1..Len(u) /\ u[2].at = "lock"
        BY <1>1, <1>3, <1>6, <2>1
    <3> QED
        BY <3>1 DEF Behind
  <2>2. CASE j = 2
    <3>1. u[j].at = "lock"
        BY <1>3, <1>6, <2>2
    <3> QED
        BY <3>1 DEF Behind
  <2> QED
      BY <1>6, <2>1, <2>2
<1>8. Pushed(u)
    BY <1>5, <1>7 DEF Pushed, NoWriter
<1> QED
    BY <1>4, <1>8

\* The panic handler pushes such calls.
LEMMA PanicPushed ==
    ASSUME LockInv, NEW c \in Cpu
    PROVE  Pushed(Panic(c))
<1> DEFINE f == [at |-> "loop", text |-> <<>>, todo |-> <<>>, nmi |-> FALSE]
           a == <<f>>
           b == Log(Error, FALSE)
           d == IF state[c] = "enabled" THEN Deactivate ELSE <<>>
<1>1. Pushed(a)
  <2>1. IsCall(f) /\ f.at = "loop"
      BY DEF IsCall
  <2> HIDE DEF f
  <2>2. IsStack(a) /\ Len(a) = 1 /\ a[1] = f
      BY <2>1, OneCall
  <2> HIDE DEF a
  <2> QED
      BY <2>1, <2>2 DEF Pushed, NoWriter, Behind
<1>2. Pushed(b)
    BY CallsWait DEF Log
<1>3. Pushed(d)
  <2>1. <<>> \in Seq({}) /\ Len(<<>>) = 0
      OBVIOUS
  <2>2. Pushed(<<>>)
      BY <2>1 DEF Pushed, IsStack, NoWriter
  <2> QED
      BY <2>2, DeactivatePushed
<1>4. Panic(c) = ((a \o b) \o d) \o b
    BY DEF Panic, Then
<1> HIDE DEF a, b, d
<1>5. Pushed(a \o b)
    BY <1>1, <1>2, PushedTogether
<1>6. Pushed((a \o b) \o d)
    BY <1>3, <1>5, PushedTogether
<1>7. Pushed(((a \o b) \o d) \o b)
    BY <1>2, <1>6, PushedTogether
<1> QED
    BY <1>4, <1>7

\* Nobody prints or holds the lock at first (static SERIAL1).
LEMMA LockInit == Init => LockInv
<1> SUFFICES ASSUME Init PROVE LockInv
    OBVIOUS
<1>1. <<>> \in Seq({}) /\ Len(<<>>) = 0
    OBVIOUS
<1>2. IsStack(<<>>) /\ Guarded(<<>>) /\ NoWriter(<<>>)
    BY <1>1 DEF IsStack, Guarded, NoWriter
<1> QED
    BY <1>2, NoCpuAssumption DEF Init, LockInv

\* What is logged or printed in turn begins before lock().
LEMMA LockLog ==
    ASSUME LockInv, NEW c \in Cpu, log(c) \/ deactivate_vmm(c), UNCHANGED max_level
    PROVE  LockInv'
<1>1. CASE log(c)
  <2>1. PICK r \in Records : Push(c, Calls(r, FALSE))
      BY <1>1 DEF log
  <2>2. Pushed(Calls(r, FALSE)) /\ UNCHANGED holder
      BY <1>1, CallsWait DEF log
  <2> QED
      BY <2>1, <2>2, LockPush
<1>2. CASE deactivate_vmm(c)
  <2>1. Pushed(Deactivate) /\ Push(c, Deactivate) /\ UNCHANGED holder
      BY <1>2, DeactivatePushed DEF deactivate_vmm
  <2> QED
      BY <2>1, LockPush
<1> QED
    BY <1>1, <1>2

\* So do the prints of an exception or a panic, wherever it hits the CPU.
LEMMA LockTrap ==
    ASSUME LockInv, NEW c \in Cpu, exception_handler(c) \/ panic(c), UNCHANGED max_level
    PROVE  LockInv'
<1> DEFINE n == Log(Warn, TRUE) \o Log(Trace, TRUE)
           f == Panic(c) \o Log(Trace, FALSE)
           o == Panic(c) \o Log(Error, FALSE) \o Log(Trace, FALSE)
<1>1. \A level, nmi : Pushed(Log(level, nmi))
    BY CallsWait DEF Log
<1>2. Pushed(Panic(c))
    BY PanicPushed
<1>3. Pushed(n) /\ Pushed(f)
    BY <1>1, <1>2, PushedTogether
<1>4. Pushed(o)
  <2>1. Pushed(Panic(c) \o Log(Error, FALSE))
      BY <1>1, <1>2, PushedTogether
  <2> QED
      BY <1>1, <2>1, PushedTogether
<1>5. UNCHANGED holder /\ (Push(c, n) \/ Push(c, f) \/ Push(c, o) \/ Push(c, Panic(c)))
    BY DEF exception_handler, panic
<1> HIDE DEF n, f, o
<1> QED
    BY <1>2, <1>3, <1>4, <1>5, LockPush

\* lock() is passed only while nobody holds the lock, so the caller becomes
\* the only one past it.
LEMMA LockLock ==
    ASSUME LockInv, NEW c \in Cpu, Lock(c), UNCHANGED max_level
    PROVE  LockInv'
<1> DEFINE s == stack[c]
           f == [Top(c) EXCEPT !.at = "write"]
           t == [s EXCEPT ![Len(s)] = f]
<1>1. s # <<>> /\ holder = NoCpu /\ holder' = c /\ stack' = SetTop(c, f)
    BY DEF Lock, At
<1>2. stack' = [stack EXCEPT ![c] = t]
    BY <1>1 DEF SetTop, LockInv
<1>3. IsStack(s) /\ NoWriter(s)
    BY <1>1, NoCpuAssumption DEF LockInv
<1> HIDE DEF s
<1>4. Len(s) \in 1..Len(s) /\ Top(c) = s[Len(s)]
  <2>1. PICK S : s \in Seq(S)
      BY <1>3 DEF IsStack
  <2> QED
      BY <1>1, <2>1 DEF Top, s
<1>5. IsCall(f) /\ f.at = "write"
    BY <1>3, <1>4 DEF IsStack, IsCall
<1> HIDE DEF f
<1>6. IsStack(t) /\ Len(t) = Len(s)
          /\ t[Len(s)] = f /\ \A i \in 1..Len(s) : i # Len(s) => t[i] = s[i]
    BY <1>1, <1>3, <1>5, TopReplaced
<1> HIDE DEF t
<1>7. OnlyWriter(t, Len(s)) /\ Len(s) \in 1..Len(t)
    BY <1>3, <1>4, <1>5, <1>6 DEF OnlyWriter, NoWriter
<1>8. Guarded(t)
    BY <1>4, <1>6, <1>7 DEF OnlyWriter, Guarded
<1> QED
    BY <1>1, <1>2, <1>6, <1>7, <1>8, OneStack

\* The byte sent leaves the call where it is.
LEMMA LockSend ==
    ASSUME LockInv, NEW c \in Cpu, Send(c), UNCHANGED max_level
    PROVE  LockInv'
<1> DEFINE s == stack[c]
           f == [Top(c) EXCEPT !.todo = Tail(@)]
           t == [s EXCEPT ![Len(s)] = f]
<1>1. s # <<>> /\ Top(c).at = "write" /\ holder' = holder /\ stack' = SetTop(c, f)
    BY DEF Send, At
<1>2. stack' = [stack EXCEPT ![c] = t]
    BY <1>1 DEF SetTop, LockInv
<1>3. IsStack(s)
    BY <1>1 DEF LockInv
<1>4. (holder # c => NoWriter(s)) /\ (holder = c => \E i \in 1..Len(s) : OnlyWriter(s, i))
    BY DEF LockInv
<1> HIDE DEF s
<1>5. Len(s) \in 1..Len(s) /\ Top(c) = s[Len(s)]
  <2>1. PICK S : s \in Seq(S)
      BY <1>3 DEF IsStack
  <2> QED
      BY <1>1, <2>1 DEF Top, s
<1>6. IsCall(f) /\ f.at = "write"
    BY <1>1, <1>3, <1>5 DEF IsStack, IsCall
<1> HIDE DEF f
<1>7. IsStack(t) /\ Len(t) = Len(s)
          /\ t[Len(s)] = f /\ \A i \in 1..Len(s) : i # Len(s) => t[i] = s[i]
    BY <1>1, <1>3, <1>6, TopReplaced
<1> HIDE DEF t
<1>8. holder = c /\ OnlyWriter(s, Len(s))
    BY <1>1, <1>4, <1>5 DEF OnlyWriter, NoWriter
<1>9. OnlyWriter(t, Len(s)) /\ Len(s) \in 1..Len(t)
    BY <1>5, <1>6, <1>7, <1>8 DEF OnlyWriter
<1>10. Guarded(t)
    BY <1>5, <1>7, <1>9 DEF OnlyWriter, Guarded
<1> QED
    BY <1>1, <1>2, <1>7, <1>8, <1>9, <1>10, OneStack

\* A stack without its top.
LEMMA Popped ==
    ASSUME NEW s, IsStack(s), s # <<>>
    PROVE  /\ IsStack(Front(s)) /\ Len(s) \in 1..Len(s) /\ Len(Front(s)) = Len(s) - 1
           /\ \A i \in 1..Len(Front(s)) : i \in 1..Len(s) /\ i # Len(s) /\ Front(s)[i] = s[i]
<1> DEFINE t == Front(s)
           n == Len(s) - 1
<1>1. PICK S : s \in Seq(S)
    BY DEF IsStack
<1>2. Len(s) \in Nat \ {0} /\ Len(s) \in 1..Len(s) /\ n \in Int /\ n >= 0 /\ \A i \in 1..n : s[i] \in S
    BY <1>1
<1>3. t = SubSeq(s, 1, n)
    BY DEF Front
<1>4. /\ SubSeq(s, 1, n) \in Seq(S) /\ Len(SubSeq(s, 1, n)) = IF 1 <= n THEN n - 1 + 1 ELSE 0
      /\ \A i \in 1..(n - 1 + 1) : SubSeq(s, 1, n)[i] = s[1 + i - 1]
    BY <1>2, SubSeqProperties
<1> HIDE DEF t
<1>5. t \in Seq(S) /\ Len(t) = n
  <2> HIDE DEF n
  <2> QED
      BY <1>2, <1>3, <1>4
<1>6. ASSUME NEW i \in 1..n PROVE i \in 1..Len(s) /\ i # Len(s) /\ t[i] = s[i]
  <2>1. i \in 1..Len(s) /\ i # Len(s) /\ i \in 1..(n - 1 + 1) /\ 1 + i - 1 = i
      BY <1>2
  <2> HIDE DEF n
  <2> QED
      BY <1>3, <1>4, <2>1
<1>7. IsStack(t)
    BY <1>5, <1>6 DEF IsStack
<1> QED
    BY <1>2, <1>5, <1>6, <1>7 DEF t

\* The guard is dropped by the holder, after which nobody is past lock().
LEMMA LockUnlock ==
    ASSUME LockInv, NEW c \in Cpu, Unlock(c), UNCHANGED max_level
    PROVE  LockInv'
<1> DEFINE s == stack[c]
           t == Front(s)
<1>1. s # <<>> /\ Top(c).at = "write" /\ holder' = NoCpu /\ stack' = [stack EXCEPT ![c] = t]
    BY DEF Unlock, At, Pop, LockInv
<1>2. IsStack(s) /\ Top(c) = s[Len(s)]
    BY DEF LockInv, Top
<1>3. (holder # c => NoWriter(s)) /\ (holder = c => \E i \in 1..Len(s) : OnlyWriter(s, i))
    BY DEF LockInv
<1> HIDE DEF s
<1>4. /\ IsStack(t) /\ Len(s) \in 1..Len(s)
      /\ \A i \in 1..Len(t) : i \in 1..Len(s) /\ i # Len(s) /\ t[i] = s[i]
    BY <1>1, <1>2, Popped
<1>5. holder = c /\ OnlyWriter(s, Len(s))
    BY <1>1, <1>2, <1>3, <1>4 DEF OnlyWriter, NoWriter
<1> HIDE DEF t
<1>6. NoWriter(t) /\ Guarded(t)
    BY <1>4, <1>5 DEF NoWriter, OnlyWriter, Guarded
<1> QED
    BY <1>1, <1>4, <1>5, <1>6, OneStack

\* A CPU that returns to Linux has no call that writes, for it has printed.
LEMMA LockReturn ==
    ASSUME LockInv, NEW c \in Cpu, return_to_linux(c), UNCHANGED max_level
    PROVE  LockInv'
<1> DEFINE s == stack[c]
           t == Front(s)
<1>1. s # <<>> /\ Top(c).at = "leave" /\ holder' = holder
    BY DEF return_to_linux, At
<1>2. stack' = [stack EXCEPT ![c] = t] \/ stack' = [stack EXCEPT ![c] = <<>>]
    BY DEF return_to_linux, Pop, LockInv
<1>3. IsStack(s) /\ Guarded(s) /\ Top(c) = s[Len(s)]
    BY DEF LockInv, Top
<1>4. (holder # c => NoWriter(s)) /\ (holder = c => \E i \in 1..Len(s) : OnlyWriter(s, i))
    BY DEF LockInv
<1> HIDE DEF s
<1>5. /\ IsStack(t) /\ Len(s) \in 1..Len(s)
      /\ \A i \in 1..Len(t) : i \in 1..Len(s) /\ i # Len(s) /\ t[i] = s[i]
    BY <1>1, <1>3, Popped
<1>6. NoWriter(s)
  <2> SUFFICES ASSUME NEW i \in 1..Len(s), s[i].at = "write" PROVE FALSE
      BY DEF NoWriter
  <2>1. i # Len(s) /\ s[Len(s)].at = "leave"
      BY <1>1, <1>3
  <2>2. i < Len(s) /\ ~(Len(s) + 1 \in 1..Len(s))
      BY <1>5, <2>1
  <2> QED
      BY <1>3, <1>5, <2>1, <2>2 DEF Guarded, Behind
<1>7. holder # c
    BY <1>4, <1>6 DEF NoWriter, OnlyWriter
<1> HIDE DEF t
<1>8. NoWriter(t) /\ Guarded(t)
    BY <1>5, <1>6 DEF NoWriter, Guarded
<1>9. IsStack(<<>>) /\ NoWriter(<<>>) /\ Guarded(<<>>)
  <2>1. <<>> \in Seq({}) /\ Len(<<>>) = 0
      OBVIOUS
  <2> QED
      BY <2>1 DEF IsStack, NoWriter, Guarded
<1> QED
    BY <1>1, <1>2, <1>5, <1>7, <1>8, <1>9, OneStack

\* Every step keeps the invariant.
LEMMA LockNext == LockInv /\ [Next]_vars => LockInv'
<1> SUFFICES ASSUME LockInv, [Next]_vars PROVE LockInv'
    OBVIOUS
<1>1. ASSUME NEW c \in Cpu, log(c) \/ deactivate_vmm(c), UNCHANGED max_level PROVE LockInv'
    BY <1>1, LockLog
<1>2. ASSUME NEW c \in Cpu, exception_handler(c) \/ panic(c), UNCHANGED max_level PROVE LockInv'
    BY <1>2, LockTrap
<1>3. ASSUME NEW c \in Cpu, return_to_linux(c), UNCHANGED max_level PROVE LockInv'
    BY <1>3, LockReturn
<1>4. ASSUME NEW c \in Cpu, putfmt(c), UNCHANGED max_level PROVE LockInv'
    BY <1>4, LockLock, LockSend, LockUnlock DEF putfmt
<1>5. CASE Transmit /\ UNCHANGED max_level
    BY <1>5 DEF Transmit, LockInv
<1>6. CASE UNCHANGED vars
    BY <1>6 DEF vars, LockInv
<1> QED
    BY <1>1, <1>2, <1>3, <1>4, <1>5, <1>6 DEF Next

\* The holder has a call that writes.
LEMMA LockSuffices == LockInv => LockNotLeftBehind
<1> SUFFICES ASSUME LockInv, holder # NoCpu
             PROVE  \E i \in DOMAIN stack[holder] : stack[holder][i].at = "write"
    BY DEF LockNotLeftBehind
<1>1. holder \in Cpu /\ IsStack(stack[holder])
    BY DEF LockInv
<1>2. PICK i \in 1..Len(stack[holder]) : OnlyWriter(stack[holder], i)
    BY <1>1 DEF LockInv
<1>3. DOMAIN stack[holder] = 1..Len(stack[holder])
  <2>1. PICK S : stack[holder] \in Seq(S)
      BY <1>1 DEF IsStack
  <2> QED
      BY <2>1
<1> QED
    BY <1>2, <1>3 DEF OnlyWriter

\* Whatever CPUs print, wherever exceptions, NMIs and panics hit them and at
\* every level of the log, no CPU returns to Linux with the lock of the console
\* (putfmt, exception_handler, panic, PerCpu::deactivate_vmm).
THEOREM LockNotLeftBehindHolds == Spec => []LockNotLeftBehind
BY LockInit, LockNext, LockSuffices, PTL DEF Spec

(***************************************************************************)
(* The set-up of the port.                                                 *)
(***************************************************************************)

\* What the division of naturals gives.
LEMMA DivBounds ==
    ASSUME NEW a \in Nat, NEW b \in Nat \ {0}
    PROVE  a \div b \in Nat /\ (a \div b) * b <= a /\ a < (a \div b + 1) * b
OBVIOUS

\* It is the only such number.
LEMMA DivUnique ==
    ASSUME NEW a \in Nat, NEW b \in Nat \ {0}, NEW q \in Nat, q * b <= a, a < (q + 1) * b
    PROVE  a \div b = q
OBVIOUS

\* The divisor of a speed: the largest with which the port is not too slow.
LEMMA DivisorOfSpeed ==
    ASSUME NEW t \in Nat, NEW s \in Nat \ {0}, s <= t
    PROVE  /\ (t * 16) \div (s * 16) = t \div s
           /\ t \div s \in Nat /\ t \div s >= 1 /\ (t \div s) * s <= t
           /\ t \div (t \div s) >= s
           /\ t \div (t \div s + 1) < s
<1> DEFINE d == t \div s
<1>1. d \in Nat /\ d * s <= t /\ t < (d + 1) * s
    BY DivBounds
<1>2. d >= 1
    BY <1>1
<1>3. (t * 16) \div (s * 16) = d
  <2>1. s * 16 \in Nat \ {0} /\ d * (s * 16) = (d * s) * 16 /\ (d + 1) * (s * 16) = ((d + 1) * s) * 16
      BY <1>1
  <2>2. d * (s * 16) <= t * 16 /\ t * 16 < (d + 1) * (s * 16) /\ t * 16 \in Nat
      BY <1>1, <2>1
  <2> QED
      BY <1>1, <2>1, <2>2, DivUnique
<1>4. t \div d >= s
  <2> DEFINE q == t \div d
  <2>1. q \in Nat /\ t < (q + 1) * d
      BY <1>1, <1>2, DivBounds
  <2> HIDE DEF q, d
  <2>2. s * d < (q + 1) * d
      BY <1>1, <2>1
  <2>3. s < q + 1
      BY <1>1, <1>2, <2>1, <2>2
  <2> QED
      BY <2>1, <2>3 DEF q
<1>5. t \div (d + 1) < s
  <2> DEFINE q == t \div (d + 1)
  <2>1. q \in Nat /\ q * (d + 1) <= t
      BY <1>1, DivBounds
  <2> HIDE DEF q, d
  <2>2. q * (d + 1) < s * (d + 1)
      BY <1>1, <2>1
  <2> QED
      BY <1>1, <2>1, <2>2 DEF q
<1> QED
    BY <1>1, <1>2, <1>3, <1>4, <1>5

\* A standard speed divides the clock.
LEMMA StandardDivides ==
    ASSUME NEW s \in Standard
    PROVE  115200 \div (115200 \div s) = s
BY SMT DEF Standard

\* For a speed of the assumption the divisor fits in 16 bits.
Largest(s, d) ==
    /\ d \in Nat /\ 1 <= d /\ d < 65536
    /\ Ticks \div d >= s /\ Ticks \div (d + 1) < s
    /\ s \in Standard => Ticks \div d = s

\* uart_divisor gives such a divisor for every speed from 2 to 115200.
LEMMA DivisorFits ==
    ASSUME NEW s \in Nat, 2 <= s, s <= 115200
    PROVE  Largest(s, (OSC_FREQ \div (s * UART_CLOCK_FACTOR)) % 65536)
<1> DEFINE t == Ticks
           d == t \div s
<1>1. t = 115200
    BY SMT DEF Ticks, OSC_FREQ, UART_CLOCK_FACTOR
<1>2. OSC_FREQ = t * 16
    BY <1>1, SMT DEF OSC_FREQ
<1>3. t \in Nat /\ s \in Nat \ {0} /\ s <= t /\ 2 <= s /\ t < 131072
    BY <1>1, SMT
<1> HIDE DEF t
<1>4. /\ (t * 16) \div (s * 16) = d
      /\ d \in Nat /\ d >= 1 /\ d * s <= t
      /\ t \div d >= s /\ t \div (d + 1) < s
    BY <1>3, DivisorOfSpeed, SMT
<1>5. s \in Standard => t \div d = s
    BY <1>1, StandardDivides, SMT
<1> HIDE DEF d
<1>6. d < 65536
  <2>1. d * 2 <= d * s
      BY <1>3, <1>4, SMT
  <2> QED
      BY <1>3, <1>4, <2>1, SMT
<1>7. d % 65536 = d
    BY <1>4, <1>6, SMT
<1>8. (OSC_FREQ \div (s * UART_CLOCK_FACTOR)) % 65536 = d
    BY <1>2, <1>4, <1>7, SMT DEF UART_CLOCK_FACTOR
<1> QED
    BY <1>4, <1>5, <1>6, <1>8, SMT DEF Largest, t

\* The port between the writes of init().
Registers == [int_en : Nat, fifo_ctrl : Nat, line_ctrl : Nat, modem_ctrl : Nat,
              dll : Nat, dlm : Nat, sent : {<<>>}]
PortInv ==
    /\ uart \in Registers /\ step \in 1..9
    /\ baud.baud \in Speeds /\ (baud.other = FALSE => baud.baud \in Standard)
    /\ step \in 3..5 => uart.line_ctrl = 128
    /\ step >= 4 => uart.dll = uart_divisor(baud).least
    /\ step >= 5 => uart.dlm = uart_divisor(baud).most
    /\ step >= 6 => uart.line_ctrl = 3
    /\ step >= 9 => uart.int_en = 1

\* The bytes of the divisor.
LEMMA DivisorBytes ==
    ASSUME baud.baud \in Speeds
    PROVE  /\ uart_divisor(baud).least \in Nat /\ uart_divisor(baud).most \in Nat
           /\ Largest(baud.baud, uart_divisor(baud).least + 256 * uart_divisor(baud).most)
<1> DEFINE d == (OSC_FREQ \div (baud.baud * UART_CLOCK_FACTOR)) % 65536
<1>1. baud.baud \in Nat /\ 2 <= baud.baud /\ baud.baud <= 115200
    BY SpeedsAssumption, SMT
<1>2. Largest(baud.baud, d)
    BY <1>1, DivisorFits, SMT
<1>3. d \in Nat
    BY <1>2, SMT DEF Largest
<1>4. uart_divisor(baud) = [least |-> d % 256, most |-> d \div 256]
    BY SMT DEF uart_divisor, speed
<1> HIDE DEF d
<1>5. d % 256 \in Nat /\ d \div 256 \in Nat /\ (d % 256) + 256 * (d \div 256) = d
    BY <1>3, SMT
<1> QED
    BY <1>2, <1>4, <1>5, SMT

\* Before init() nothing is sent and no step is done.
LEMMA PortInit == UartInit => PortInv
<1> SUFFICES ASSUME UartInit PROVE PortInv
    OBVIOUS
<1>1. uart \in Registers /\ step = 1
    BY SMT DEF UartInit, Registers
<1>2. PICK s \in Speeds : baud = from_speed(s)
    BY SMT DEF UartInit
<1>3. baud.baud \in Speeds /\ (baud.other = FALSE => baud.baud \in Standard)
  <2>1. CASE s \in Standard
      BY <1>2, <2>1, SMT DEF from_speed
  <2>2. CASE s \notin Standard
      BY <1>2, <2>2, SMT DEF from_speed
  <2> QED
      BY <2>1, <2>2
<1> QED
    BY <1>1, <1>3, SMT DEF PortInv

\* The writes of init(), one by one.
LEMMA PortWrites ==
    /\ Len(init(baud)) = 8
    /\ init(baud)[1] = <<"int_en", 0>>
    /\ init(baud)[2] = <<"line_ctrl", 128>>
    /\ init(baud)[3] = <<"data", uart_divisor(baud).least>>
    /\ init(baud)[4] = <<"int_en", uart_divisor(baud).most>>
    /\ init(baud)[5] = <<"line_ctrl", 3>>
    /\ init(baud)[6] = <<"fifo_ctrl", 199>>
    /\ init(baud)[7] = <<"modem_ctrl", 11>>
    /\ init(baud)[8] = <<"int_en", 1>>
BY SMT DEF init

\* Three ports are one register each.
LEMMA OtherPorts ==
    ASSUME NEW u, NEW v
    PROVE  /\ PortWrite(u, "line_ctrl", v) = [u EXCEPT !.line_ctrl = v]
           /\ PortWrite(u, "fifo_ctrl", v) = [u EXCEPT !.fifo_ctrl = v]
           /\ PortWrite(u, "modem_ctrl", v) = [u EXCEPT !.modem_ctrl = v]
BY DEF PortWrite

\* Each write of init() keeps the invariant.
LEMMA PortNext == PortInv /\ [UartNext]_uart_vars => PortInv'
<1> SUFFICES ASSUME PortInv, [UartNext]_uart_vars PROVE PortInv'
    OBVIOUS
<1>1. CASE UartNext
  <2> DEFINE w == init(baud)[step]
  <2>1. step <= 8 /\ step' = step + 1 /\ baud' = baud /\ uart' = PortWrite(uart, w[1], w[2])
      BY <1>1, PortWrites, SMT DEF UartNext
  <2>2. step \in 1..8 /\ uart \in Registers
      BY <2>1, SMT DEF PortInv
  <2>3. uart_divisor(baud)' = uart_divisor(baud)
      BY <2>1, SMT DEF uart_divisor, speed
  <2>4. uart_divisor(baud).least \in Nat /\ uart_divisor(baud).most \in Nat
      BY DivisorBytes DEF PortInv
  <2>5. baud'.baud \in Speeds /\ (baud'.other = FALSE => baud'.baud \in Standard)
      BY <2>1, SMT DEF PortInv
  <2> DEFINE lo == uart_divisor(baud).least
             hi == uart_divisor(baud).most
  <2> HIDE DEF lo, hi
  <2>6. CASE step = 1
    <3>1. w[1] = "int_en" /\ w[2] = 0
        BY <2>6, PortWrites, SMT
    <3>2. uart' \in Registers
        BY <2>1, <2>2, <3>1, SMT DEF PortWrite, DLAB, Registers
    <3> QED
        BY <2>1, <2>5, <2>6, <3>2, SMT DEF PortInv
  <2>7. CASE step = 2
    <3>1. w[1] = "line_ctrl" /\ w[2] = 128
        BY <2>7, PortWrites, SMT
    <3>2. uart' = [uart EXCEPT !.line_ctrl = 128]
        BY <2>1, <3>1, OtherPorts
    <3>3. uart' \in Registers /\ uart'.line_ctrl = 128
        BY <2>2, <3>2, SMT DEF Registers
    <3> QED
        BY <2>1, <2>5, <2>7, <3>3, SMT DEF PortInv
  <2>8. CASE step = 3
    <3>1. w[1] = "data" /\ w[2] = lo
        BY <2>8, PortWrites, SMT DEF lo
    <3>2. uart' = [uart EXCEPT !.dll = lo]
        BY <2>1, <2>8, <3>1, SMT DEF PortWrite, DLAB, PortInv
    <3>3. uart' \in Registers /\ uart'.line_ctrl = uart.line_ctrl /\ uart'.dll = lo
        BY <2>2, <2>4, <3>2, SMT DEF Registers, lo
    <3> QED
        BY <2>1, <2>3, <2>5, <2>8, <3>3, SMT DEF PortInv, lo
  <2>9. CASE step = 4
    <3>1. w[1] = "int_en" /\ w[2] = hi
        BY <2>9, PortWrites, SMT DEF hi
    <3>2. uart' = [uart EXCEPT !.dlm = hi]
        BY <2>1, <2>9, <3>1, SMT DEF PortWrite, DLAB, PortInv
    <3>3. uart' \in Registers /\ uart'.line_ctrl = uart.line_ctrl /\ uart'.dll = uart.dll /\ uart'.dlm = hi
        BY <2>2, <2>4, <3>2, SMT DEF Registers, hi
    <3> QED
        BY <2>1, <2>3, <2>5, <2>9, <3>3, SMT DEF PortInv, hi
  <2>10. CASE step = 5
    <3>1. w[1] = "line_ctrl" /\ w[2] = 3
        BY <2>10, PortWrites, SMT
    <3>2. uart' = [uart EXCEPT !.line_ctrl = 3]
        BY <2>1, <3>1, OtherPorts
    <3>3. uart' \in Registers /\ uart'.line_ctrl = 3 /\ uart'.dll = uart.dll /\ uart'.dlm = uart.dlm
        BY <2>2, <3>2, SMT DEF Registers
    <3> QED
        BY <2>1, <2>3, <2>5, <2>10, <3>3, SMT DEF PortInv
  <2>11. CASE step = 6
    <3>1. w[1] = "fifo_ctrl" /\ w[2] = 199
        BY <2>11, PortWrites, SMT
    <3>2. uart' = [uart EXCEPT !.fifo_ctrl = 199]
        BY <2>1, <3>1, OtherPorts
    <3>3. uart' \in Registers /\ uart'.line_ctrl = uart.line_ctrl /\ uart'.dll = uart.dll /\ uart'.dlm = uart.dlm
        BY <2>2, <3>2, SMT DEF Registers
    <3> QED
        BY <2>1, <2>3, <2>5, <2>11, <3>3, SMT DEF PortInv
  <2>12. CASE step = 7
    <3>1. w[1] = "modem_ctrl" /\ w[2] = 11
        BY <2>12, PortWrites, SMT
    <3>2. uart' = [uart EXCEPT !.modem_ctrl = 11]
        BY <2>1, <3>1, OtherPorts
    <3>3. uart' \in Registers /\ uart'.line_ctrl = uart.line_ctrl /\ uart'.dll = uart.dll /\ uart'.dlm = uart.dlm
        BY <2>2, <3>2, SMT DEF Registers
    <3> QED
        BY <2>1, <2>3, <2>5, <2>12, <3>3, SMT DEF PortInv
  <2>13. CASE step = 8
    <3>1. w[1] = "int_en" /\ w[2] = 1
        BY <2>13, PortWrites, SMT
    <3>2. uart' = [uart EXCEPT !.int_en = 1]
        BY <2>1, <2>13, <3>1, SMT DEF PortWrite, DLAB, PortInv
    <3>3. /\ uart' \in Registers /\ uart'.line_ctrl = uart.line_ctrl /\ uart'.dll = uart.dll
          /\ uart'.dlm = uart.dlm /\ uart'.int_en = 1
        BY <2>2, <3>2, SMT DEF Registers
    <3> QED
        BY <2>1, <2>3, <2>5, <2>13, <3>3, SMT DEF PortInv
  <2> QED
      BY <2>2, <2>6, <2>7, <2>8, <2>9, <2>10, <2>11, <2>12, <2>13, SMT
<1>2. CASE UNCHANGED uart_vars
    BY <1>2, SMT DEF uart_vars, PortInv, uart_divisor, speed
<1> QED
    BY <1>1, <1>2

\* A port of the invariant runs at the speed asked for.
LEMMA PortSuffices == PortInv => ReadyAtSpeed
<1> SUFFICES ASSUME PortInv PROVE ReadyAtSpeed
    OBVIOUS
<1>1. uart.sent = <<>>
    BY SMT DEF PortInv, Registers
<1>2. Done => step = 9
    BY PortWrites, SMT DEF Done, PortInv
<1>3. ReadyForData
    BY <1>1, <1>2, SMT DEF ReadyForData, PortInv
<1>4. ASSUME Done PROVE Largest(baud.baud, Divisor)
    BY <1>2, <1>4, DivisorBytes, SMT DEF Divisor, PortInv
<1>5. RunsAtSpeed
    BY <1>4, SMT DEF RunsAtSpeed, Largest, PortInv
<1> QED
    BY <1>3, <1>5 DEF ReadyAtSpeed

\* For every speed from 2 to 115200 the port is ready after init(), at the
\* slowest rate not below it and exactly at a standard one, and nothing went
\* out before (SerialPort::init, uart_divisor).
THEOREM ReadyAtSpeedHolds == UartSpec => []ReadyAtSpeed
BY PortInit, PortNext, PortSuffices, PTL DEF UartSpec
=============================================================================
