----------------------------- MODULE Events_proofs -----------------------------
(***************************************************************************)
(* Proofs about the event driver and about the process's start and stop:   *)
(* for any number of descriptors and of threads that add them, and for any *)
(* number of service threads and of signals.                               *)
(***************************************************************************)
EXTENDS EventDriver, Lifecycle, FiniteSetTheorems, NaturalsInduction, WellFoundedInduction, TLAPS

----------------------------------------------------------------------------
(* EventDriver: no entry is used after it was freed or freed twice, the    *)
(* kernel watches what the table says, and only a hangup in the middle of  *)
(* AddModr leads to the null pointer.                                      *)

(* The table covers the descriptors that have been added, and an entry in  *)
(* it belongs to its descriptor.                                           *)
TableOK ==
    /\ fd2data_size_ \in Nat
    /\ DOMAIN fd2data_ = 0 .. fd2data_size_ /\ maxfd_ \in -1 .. fd2data_size_
    /\ \A i \in DOMAIN fd2data_ :
          fd2data_[i] # 0 => /\ i <= maxfd_ /\ i \in Fds
                             /\ fd2data_[i] \in DOMAIN entry /\ entry[fd2data_[i]].fd_ = i
    /\ DOMAIN entry \subseteq 1 .. MaxEntry
    /\ \A e \in DOMAIN entry :
          entry[e] \in [fd_ : Fds, event_ : SUBSET {"in"}]

ClosedOK ==
    /\ closed_ \in Seq(DOMAIN entry)
    /\ \A i, j \in DOMAIN closed_ : closed_[i] = closed_[j] => i = j
    /\ \A i \in DOMAIN closed_, fd \in DOMAIN fd2data_ : closed_[i] # fd2data_[fd]

(* The kernel's set has open descriptors of the table. *)
KernelOK ==
    /\ opened \subseteq Fds /\ ready \in [Fds -> SUBSET Hangup]
    /\ DOMAIN epoll \subseteq opened
    /\ \A fd \in DOMAIN epoll :
          /\ epoll[fd] \in [ptr : 1 .. MaxEntry, mask : SUBSET {"in"}]
          /\ fd \in DOMAIN fd2data_ /\ fd2data_[fd] = epoll[fd].ptr /\ fd2data_[fd] # 0
          /\ Settled(fd) => /\ epoll[fd].mask = entry[fd2data_[fd]].event_
                            /\ "in" \in epoll[fd].mask

(* What each adding thread has in hand: its own open descriptor, at "ctl"  *)
(* an entry that the kernel does not know, and from then on one without    *)
(* interest; a table entry that is gone was hung up.                       *)
CallerOK ==
    /\ at \in [Caller -> {"idle", "add", "ctl", "modr", "set", "mod", "crash"}]
    /\ arg \in [Caller -> 0 .. MaxFd]
    /\ \A c \in Caller : at[c] # "idle" => arg[c] \in opened
    /\ \A c, d \in Caller : at[c] # "idle" /\ at[d] # "idle" /\ arg[c] = arg[d] => c = d
    /\ \A c \in Caller : at[c] \in {"add", "ctl"} => arg[c] \notin DOMAIN epoll
    /\ \A c \in Caller : at[c] \in {"ctl", "modr", "set", "mod"} => arg[c] \in DOMAIN fd2data_
    /\ \A c \in Caller : at[c] = "ctl" => fd2data_[arg[c]] # 0
    /\ \A c \in Caller : at[c] \in {"modr", "set", "mod"} /\ arg[c] \in DOMAIN epoll
                            => epoll[arg[c]].mask = {}
    /\ \A c \in Caller : at[c] \in {"modr", "set"} /\ fd2data_[arg[c]] = 0
                            => "hup" \in ready[arg[c]]
    /\ \A c \in Caller : at[c] = "mod" /\ fd2data_[arg[c]] # 0
                            => entry[fd2data_[arg[c]]].event_ = {"in"}
    /\ \A c \in Caller : at[c] = "crash" => "hup" \in ready[arg[c]]

(* The batch: while it is handled deletions are deferred, and an event     *)
(* names the entry that its descriptor still has in the table.             *)
BatchOK ==
    /\ inloop_ \in BOOLEAN
    /\ loop \in {"wait", "events"} => inloop_
    /\ loop # "events" => events = {}
    /\ \A event \in events :
          event.ptr # 0 =>
             /\ event.ptr \in DOMAIN entry
             /\ entry[event.ptr].fd_ \in DOMAIN epoll
             /\ epoll[entry[event.ptr].fd_].ptr = event.ptr
             /\ \A c \in Caller :
                   at[c] \in {"modr", "set"} /\ arg[c] = entry[event.ptr].fd_
                      => event.flags \subseteq ready[arg[c]] \cap {"hup"}
    /\ \A one, other \in events : one.ptr = other.ptr => one = other

IInv == TableOK /\ ClosedOK /\ KernelOK /\ CallerOK /\ BatchOK

----------------------------------------------------------------------------
(* The size of a table whose domain is an interval. *)
LEMMA SizeOfTable ==
    ASSUME NEW n \in Nat, NEW f, DOMAIN f = 0 .. n
    PROVE  Cardinality(DOMAIN f) - 1 = n
<1>1. Cardinality(0 .. n) = IF 0 > n THEN 0 ELSE n - 0 + 1
    BY FS_Interval
<1> QED
    BY <1>1

(* A set of naturals that is not empty has a least element. *)
LEMMA LeastNatural ==
    ASSUME NEW T, T \subseteq Nat, T # {}
    PROVE  \E m \in T : \A x \in T : m <= x
<1> DEFINE Less == {ss \in Nat \X Nat : ss[1] < ss[2]}
<1>1. IsWellFoundedOn(Less, Nat)
    BY NatLessThanWellFounded DEF OpToRel
<1>2. \A x, m \in Nat : x < m => <<x, m>> \in Less
    OBVIOUS
<1> HIDE DEF Less
<1>3. \E m \in T : \A x \in T : ~ (<<x, m>> \in Less)
    BY <1>1, WFMin, Zenon
<1>4. PICK m \in T : \A x \in T : ~ (<<x, m>> \in Less)
    BY <1>3
<1>5. \A x \in T : x \in Nat /\ m \in Nat /\ ~ (x < m)
    BY <1>2, <1>4
<1> QED
    BY <1>5

(* The table grows by whole increments, at least to the descriptor. *)
LEMMA GrownCovers ==
    ASSUME NEW fd \in Nat, fd2data_size_ \in Nat
    PROVE  Grown(fd) \in Nat /\ fd <= Grown(fd) /\ fd2data_size_ <= Grown(fd)
<1> DEFINE s == fd2data_size_
           k == Incr_fd2data
           n == fd - s + k - 1
<1> HIDE DEF s
<1>1. k \in Nat \ {0}
    BY DriverAssumption
<1>2. s \in Nat
    BY DEF s
<1>3. CASE fd <= s
    BY <1>2, <1>3 DEF Grown, s
<1>4. CASE s < fd
  <2>1. n \in Nat /\ n >= k
    BY <1>1, <1>2, <1>4
  <2> HIDE DEF n
  <2>2. n \div k \in Nat /\ (n \div k) * k + (n % k) = n /\ n % k \in 0 .. k - 1
    BY <1>1, <2>1
  <2>3. ((n \div k) * k) \in Nat /\ n - (k - 1) <= (n \div k) * k
    BY <1>1, <2>1, <2>2
  <2>4. fd <= s + (n \div k) * k
    BY <1>1, <1>2, <2>1, <2>3 DEF n
  <2>5. Grown(fd) = s + (n \div k) * k
    BY <1>2, <1>4 DEF Grown, s, n
  <2> QED
    BY <1>2, <1>4, <2>3, <2>4, <2>5 DEF s
<1> QED
    BY <1>2, <1>3, <1>4 DEF s

----------------------------------------------------------------------------
LEMMA DriverInvInit == DriverInit => IInv
<1> SUFFICES ASSUME DriverInit PROVE IInv
    OBVIOUS
<1>1. Init_fd2data \in Nat /\ DOMAIN fd2data_ = 0 .. Init_fd2data
    BY DriverAssumption DEF DriverInit
<1>2. fd2data_size_ = Init_fd2data
    BY <1>1, SizeOfTable DEF fd2data_size_
<1>3. TableOK
    BY <1>1, <1>2 DEF DriverInit, TableOK
<1>4. ClosedOK
    BY DEF DriverInit, ClosedOK
<1>5. KernelOK
    BY DEF DriverInit, KernelOK
<1>6. CallerOK
    BY DriverAssumption DEF DriverInit, CallerOK
<1>7. BatchOK
    BY DEF DriverInit, BatchOK
<1> QED
    BY <1>3, <1>4, <1>5, <1>6, <1>7 DEF IInv

(* The size depends on the table alone. *)
LEMMA SameSize ==
    ASSUME DOMAIN fd2data_' = DOMAIN fd2data_
    PROVE  fd2data_size_' = fd2data_size_
BY DEF fd2data_size_

LEMMA OpenStep == ASSUME IInv, NEW c \in Caller, Open(c) PROVE IInv'
<1> USE DEF IInv, Open, Goto, tableVars, loopVars
<1>0. at' \in [Caller -> {"idle", "add", "ctl", "modr", "set", "mod", "crash"}]
    BY DEF CallerOK
<1>1. PICK fd \in Fds \ opened :
          opened' = opened \cup {fd} /\ arg' = [arg EXCEPT ![c] = fd]
    OBVIOUS
<1>2. fd2data_size_' = fd2data_size_
    BY SameSize
<1>3. TableOK' /\ ClosedOK'
    BY <1>2 DEF TableOK, ClosedOK
<1>4. KernelOK'
    BY <1>1 DEF KernelOK, CallerOK, Settled
<1>5. CallerOK'
  <2>1. arg' \in [Caller -> 0 .. MaxFd]
    BY <1>1, DriverAssumption DEF CallerOK, Fds
  <2>2. /\ at'[c] = "add" /\ arg'[c] = fd /\ fd \notin opened
        /\ \A d \in Caller \ {c} : at'[d] = at[d] /\ arg'[d] = arg[d]
    BY <1>1 DEF CallerOK
  <2>3. \A d \in Caller \ {c} : at'[d] # "idle" => arg'[d] # fd
    BY <2>2 DEF CallerOK
  <2>4. fd \notin DOMAIN epoll
    BY <2>2 DEF KernelOK
  <2> QED
    BY <1>0, <1>1, <2>1, <2>2, <2>3, <2>4 DEF CallerOK
<1>6. BatchOK'
    BY <1>1 DEF BatchOK, KernelOK, CallerOK
<1> QED
    BY <1>3, <1>4, <1>5, <1>6

(* An error in AddModr closes a descriptor that the kernel does not watch: *)
(* no other thread has it in hand, and no event names it.                  *)
LEMMA FailStep ==
    ASSUME IInv, NEW c \in Caller, at[c] # "idle", arg[c] \notin DOMAIN epoll,
           Fail(c), UNCHANGED <<tableVars, arg, eventfd, loopVars>>
    PROVE  IInv'
<1> DEFINE fd == arg[c]
<1> USE DEF IInv, Fail, Goto, CloseFd, tableVars, loopVars
<1>1. /\ at'[c] = "idle" /\ \A d \in Caller \ {c} : at'[d] = at[d]
      /\ at' \in [Caller -> {"idle", "add", "ctl", "modr", "set", "mod", "crash"}]
    BY DEF CallerOK
<1>2. /\ DOMAIN epoll' = DOMAIN epoll
      /\ \A f \in DOMAIN epoll : epoll'[f] = epoll[f]
    BY DEF Without
<1>3. fd \in Fds /\ fd \in opened
    BY DEF CallerOK, KernelOK
<1>4. /\ ready' \in [Fds -> SUBSET Hangup]
      /\ \A f \in Fds \ {fd} : ready'[f] = ready[f]
    BY <1>3 DEF KernelOK
<1>5. fd2data_size_' = fd2data_size_
    BY SameSize
<1>6. TableOK' /\ ClosedOK'
    BY <1>5 DEF TableOK, ClosedOK
<1>7. \A f \in DOMAIN epoll : Settled(f)' => Settled(f)
    BY <1>1, <1>2 DEF Settled
<1>8. KernelOK'
    BY <1>2, <1>3, <1>4, <1>7 DEF KernelOK
<1>9. \A d \in Caller : at'[d] # "idle" => d # c /\ at[d] # "idle" /\ arg[d] # fd /\ arg[d] \in opened /\ arg[d] \in Fds
    BY <1>1 DEF CallerOK, KernelOK
<1>10. \A d \in Caller : at'[d] # "idle" => ready'[arg[d]] = ready[arg[d]] /\ at'[d] = at[d]
    BY <1>1, <1>4, <1>9
<1>11. CallerOK'
    BY <1>1, <1>2, <1>9, <1>10 DEF CallerOK
<1>12. BatchOK'
    BY <1>2, <1>10 DEF BatchOK
<1> QED
    BY <1>6, <1>8, <1>11, <1>12

LEMMA AddStep == ASSUME IInv, NEW c \in Caller, Add(c) PROVE IInv'
<1> DEFINE fd == arg[c]
<1>1. /\ at[c] = "add" /\ UNCHANGED <<arg, eventfd, loopVars>>
      /\ fd \notin DOMAIN epoll /\ fd \in opened /\ fd \in Fds /\ fd \in Nat
    BY DriverAssumption DEF Add, IInv, CallerOK, KernelOK, Fds
<1>2. CASE fd < fd2data_size_ /\ fd2data_[fd] # 0
    BY <1>1, <1>2, FailStep DEF Add, tableVars
<1>3. CASE ~ (fd < fd2data_size_ /\ fd2data_[fd] # 0)
  <2> DEFINE free == (1 .. MaxEntry) \ DOMAIN entry
             new == CHOOSE e \in free : \A other \in free : e <= other
  <2>1. /\ free # {}
        /\ entry' = With(entry, new, [fd_ |-> fd, event_ |-> {}])
        /\ maxfd_' = IF fd > maxfd_ THEN fd ELSE maxfd_
        /\ fd2data_' = With([i \in 0 .. Grown(fd) |->
                                IF i <= fd2data_size_ THEN fd2data_[i] ELSE 0], fd, new)
        /\ Goto(c, "ctl") /\ UNCHANGED <<closed_, kernelVars>>
    BY <1>3 DEF Add
  <2>2. new \in free
    <3>1. free \subseteq Nat /\ free # {}
      BY <2>1, DriverAssumption
    <3> HIDE DEF free
    <3>2. \E e \in free : \A other \in free : e <= other
      BY <3>1, LeastNatural
    <3> QED
      BY <3>2
  <2> HIDE DEF new
  <2>3. new \in 1 .. MaxEntry /\ new \notin DOMAIN entry /\ new # 0
    BY <2>2, DriverAssumption
  <2> HIDE DEF free
  <2>4. /\ DOMAIN entry' = DOMAIN entry \cup {new}
        /\ entry'[new] = [fd_ |-> fd, event_ |-> {}]
        /\ \A e \in DOMAIN entry : entry'[e] = entry[e]
    BY <2>1, <2>3 DEF With
  <2>5. Grown(fd) \in Nat /\ fd <= Grown(fd) /\ fd2data_size_ <= Grown(fd)
    BY <1>1, GrownCovers DEF IInv, TableOK
  <2>6. /\ DOMAIN fd2data_' = 0 .. Grown(fd) /\ fd2data_'[fd] = new
        /\ \A i \in DOMAIN fd2data_ \ {fd} : i \in DOMAIN fd2data_' /\ fd2data_'[i] = fd2data_[i]
        /\ \A i \in DOMAIN fd2data_' \ {fd} : i \in DOMAIN fd2data_ \/ fd2data_'[i] = 0
    <3> DEFINE bigger == [i \in 0 .. Grown(fd) |->
                             IF i <= fd2data_size_ THEN fd2data_[i] ELSE 0]
    <3>1. /\ DOMAIN fd2data_' = DOMAIN bigger \cup {fd} /\ fd2data_'[fd] = new
          /\ \A i \in DOMAIN bigger \ {fd} : fd2data_'[i] = bigger[i]
      BY <2>1 DEF With
    <3>2. DOMAIN fd2data_ = 0 .. fd2data_size_ /\ fd2data_size_ \in Nat
      BY DEF IInv, TableOK
    <3>3. DOMAIN bigger = 0 .. Grown(fd) /\ fd \in 0 .. Grown(fd)
      BY <1>1, <2>5
    <3> QED
      BY <1>1, <2>5, <3>1, <3>2, <3>3
  <2>7. fd2data_size_' = Grown(fd)
    BY <2>5, <2>6, SizeOfTable DEF fd2data_size_
  <2>8. TableOK'
    <3>1. maxfd_' \in -1 .. Grown(fd) /\ fd <= maxfd_' /\ maxfd_ <= maxfd_' /\ maxfd_ \in Int
      BY <1>1, <2>1, <2>5 DEF IInv, TableOK
    <3>2. \A i \in DOMAIN fd2data_' \ {fd} :
             fd2data_'[i] # 0 => /\ i \in DOMAIN fd2data_ /\ fd2data_'[i] = fd2data_[i]
                                 /\ i <= maxfd_ /\ i \in Fds
                                 /\ fd2data_[i] \in DOMAIN entry /\ entry[fd2data_[i]].fd_ = i
      BY <2>6 DEF IInv, TableOK
    <3>3. \A i \in Fds : i \in Int
      BY DriverAssumption DEF Fds
    <3>4. \A i \in DOMAIN fd2data_' :
             fd2data_'[i] # 0 => /\ i <= maxfd_' /\ i \in Fds
                                 /\ fd2data_'[i] \in DOMAIN entry' /\ entry'[fd2data_'[i]].fd_ = i
      BY <1>1, <2>4, <2>6, <3>1, <3>2, <3>3
    <3>5. DOMAIN entry' \subseteq 1 .. MaxEntry
      BY <2>3, <2>4 DEF IInv, TableOK
    <3>6. \A e \in DOMAIN entry' : entry'[e] \in [fd_ : Fds, event_ : SUBSET {"in"}]
      BY <1>1, <2>4 DEF IInv, TableOK
    <3> QED
      BY <2>5, <2>6, <2>7, <3>1, <3>4, <3>5, <3>6 DEF TableOK
  <2>9. ClosedOK'
    <3>1. closed_' = closed_ /\ closed_ \in Seq(DOMAIN entry) /\ DOMAIN closed_ = 1 .. Len(closed_)
      BY <2>1 DEF IInv, ClosedOK
    <3>2. closed_ \in Seq(DOMAIN entry')
      BY <2>4, <3>1
    <3>3. \A i \in DOMAIN closed_ : closed_[i] \in DOMAIN entry /\ closed_[i] # new /\ closed_[i] # 0
      BY <2>3, <3>1 DEF IInv, TableOK
    <3> QED
      BY <2>6, <3>1, <3>2, <3>3 DEF IInv, ClosedOK
  <2>10. /\ at'[c] = "ctl" /\ \A d \in Caller \ {c} : at'[d] = at[d]
         /\ at' \in [Caller -> {"idle", "add", "ctl", "modr", "set", "mod", "crash"}]
    BY <2>1 DEF Goto, IInv, CallerOK
  <2>11. KernelOK'
    <3>1. \A f \in DOMAIN epoll : Settled(f)' => Settled(f)
      BY <1>1, <2>1, <2>10 DEF Settled, kernelVars
    <3>2. \A f \in DOMAIN epoll : fd2data_[f] \in DOMAIN entry /\ f # fd
      BY <1>1 DEF IInv, KernelOK, TableOK
    <3>3. \A f \in DOMAIN epoll : f \in DOMAIN fd2data_' /\ fd2data_'[f] = fd2data_[f] /\ entry'[fd2data_[f]] = entry[fd2data_[f]]
      BY <2>4, <2>6, <3>2 DEF IInv, KernelOK
    <3>4. epoll' = epoll /\ ready' = ready /\ opened' = opened
      BY <2>1 DEF kernelVars
    <3> QED
      BY <3>1, <3>3, <3>4 DEF IInv, KernelOK
  <2>12. CallerOK'
    <3>1. \A d \in Caller \ {c} : at[d] # "idle" => arg[d] # fd
      BY <1>1 DEF IInv, CallerOK
    <3>2. \A d \in Caller \ {c} : at[d] \in {"ctl", "modr", "set", "mod"} =>
             /\ arg[d] \in DOMAIN fd2data_' /\ fd2data_'[arg[d]] = fd2data_[arg[d]]
             /\ fd2data_[arg[d]] # 0 => entry'[fd2data_[arg[d]]] = entry[fd2data_[arg[d]]]
      BY <2>4, <2>6, <3>1 DEF IInv, CallerOK, TableOK
    <3>3. arg' = arg /\ UNCHANGED kernelVars
      BY <1>1, <2>1
    <3>4. fd \in DOMAIN fd2data_' /\ fd2data_'[fd] # 0
      BY <1>1, <2>3, <2>5, <2>6
    <3>5. \A d \in Caller : at'[d] # "idle" => at[d] # "idle"
      BY <1>1, <2>10
    <3> QED
      BY <1>1, <2>10, <3>2, <3>3, <3>4, <3>5 DEF IInv, CallerOK, kernelVars
  <2>13. BatchOK'
    <3>1. UNCHANGED <<arg, loopVars, kernelVars>>
      BY <1>1, <2>1
    <3> QED
      BY <2>4, <2>10, <3>1 DEF IInv, BatchOK, loopVars, kernelVars
  <2> QED
    BY <2>8, <2>9, <2>11, <2>12, <2>13 DEF IInv
<1> QED
    BY <1>2, <1>3

(* What CtlAdd and Mod need to know of the threads other than c. *)
LEMMA GotoFacts ==
    ASSUME IInv, NEW c \in Caller,
           NEW pc \in {"idle", "add", "ctl", "modr", "set", "mod", "crash"}, Goto(c, pc)
    PROVE  /\ at' \in [Caller -> {"idle", "add", "ctl", "modr", "set", "mod", "crash"}]
           /\ at'[c] = pc /\ \A d \in Caller \ {c} : at'[d] = at[d]
           /\ at[c] # "idle" => \A d \in Caller \ {c} : at[d] # "idle" => arg[d] # arg[c]
BY DEF Goto, IInv, CallerOK

LEMMA CtlAddStep == ASSUME IInv, NEW c \in Caller, CtlAdd(c) PROVE IInv'
<1> DEFINE fd == arg[c]
           e == fd2data_[fd]
<1>1. /\ at[c] = "ctl" /\ UNCHANGED <<arg, eventfd, loopVars>>
      /\ fd \notin DOMAIN epoll /\ fd \in opened /\ fd \in Fds
      /\ fd \in DOMAIN fd2data_ /\ e # 0 /\ e \in DOMAIN entry /\ entry[e].fd_ = fd
    BY DEF CtlAdd, IInv, CallerOK, KernelOK, TableOK
<1>2. CASE /\ epoll' = With(epoll, fd, [ptr |-> e, mask |-> {}])
           /\ Goto(c, "modr") /\ UNCHANGED <<tableVars, ready, opened>>
  <2>0. e \in 1 .. MaxEntry /\ opened' = opened /\ ready' = ready
    BY <1>1, <1>2 DEF IInv, TableOK
  <2>1. /\ DOMAIN epoll' = DOMAIN epoll \cup {fd}
        /\ epoll'[fd] \in [ptr : 1 .. MaxEntry, mask : SUBSET {"in"}]
        /\ epoll'[fd].ptr = e /\ epoll'[fd].mask = {}
        /\ \A f \in DOMAIN epoll : epoll'[f] = epoll[f]
    BY <1>1, <1>2, <2>0 DEF With
  <2>2. /\ at' \in [Caller -> {"idle", "add", "ctl", "modr", "set", "mod", "crash"}]
        /\ at'[c] = "modr" /\ \A d \in Caller \ {c} : at'[d] = at[d]
        /\ \A d \in Caller \ {c} : at[d] # "idle" => arg[d] # fd
    BY <1>1, <1>2, GotoFacts
  <2>3. fd2data_' = fd2data_ /\ maxfd_' = maxfd_ /\ entry' = entry /\ closed_' = closed_
    BY <1>2 DEF tableVars
  <2>4. fd2data_size_' = fd2data_size_
    BY <2>3, SameSize
  <2>5. TableOK' /\ ClosedOK'
    BY <2>3, <2>4 DEF IInv, TableOK, ClosedOK
  <2>6. KernelOK'
    <3>1. ~ Settled(fd)'
      BY <1>1, <2>2 DEF Settled
    <3>2. \A f \in DOMAIN epoll : Settled(f)' => Settled(f)
      BY <1>1, <2>2 DEF Settled
    <3> QED
      BY <1>1, <2>0, <2>1, <2>3, <3>1, <3>2 DEF IInv, KernelOK
  <2>7. CallerOK'
    BY <1>1, <2>0, <2>1, <2>2, <2>3 DEF IInv, CallerOK
  <2>8. BatchOK'
    <3>1. UNCHANGED <<arg, events, loop, inloop_>>
      BY <1>1 DEF loopVars
    <3>2. \A event \in events : event.ptr # 0 => entry[event.ptr].fd_ \in DOMAIN epoll \ {fd}
      BY <1>1 DEF IInv, BatchOK
    <3> QED
      BY <2>0, <2>1, <2>2, <2>3, <3>1, <3>2 DEF IInv, BatchOK
  <2> QED
    BY <2>5, <2>6, <2>7, <2>8 DEF IInv
<1>3. CASE /\ entry' = Without(entry, e)
           /\ fd2data_' = [fd2data_ EXCEPT ![fd] = 0]
           /\ Fail(c) /\ UNCHANGED <<maxfd_, closed_>>
  <2>1. /\ DOMAIN entry' = DOMAIN entry \ {e}
        /\ \A x \in DOMAIN entry \ {e} : entry'[x] = entry[x]
    BY <1>3 DEF Without
  <2>2. /\ DOMAIN fd2data_' = DOMAIN fd2data_ /\ fd2data_'[fd] = 0
        /\ \A i \in DOMAIN fd2data_ \ {fd} : fd2data_'[i] = fd2data_[i]
        /\ \A i \in DOMAIN fd2data_ \ {fd} : fd2data_[i] # e
    BY <1>1, <1>3 DEF IInv, TableOK
  <2>3. fd2data_size_' = fd2data_size_
    BY <2>2, SameSize
  <2>4. /\ at' \in [Caller -> {"idle", "add", "ctl", "modr", "set", "mod", "crash"}]
        /\ at'[c] = "idle" /\ \A d \in Caller \ {c} : at'[d] = at[d]
        /\ \A d \in Caller \ {c} : at[d] # "idle" => arg[d] # fd
    BY <1>1, <1>3, GotoFacts DEF Fail
  <2>5. /\ DOMAIN epoll' = DOMAIN epoll /\ opened' = opened \ {fd}
        /\ \A f \in DOMAIN epoll : epoll'[f] = epoll[f]
    BY <1>1, <1>3 DEF Fail, CloseFd, Without
  <2>6. /\ ready' \in [Fds -> SUBSET Hangup]
        /\ \A f \in Fds \ {fd} : ready'[f] = ready[f]
    BY <1>1, <1>3 DEF Fail, CloseFd, IInv, KernelOK
  <2>7. TableOK'
    BY <1>1, <1>3, <2>1, <2>2, <2>3 DEF IInv, TableOK
  <2>8. ClosedOK'
    <3>1. closed_' = closed_ /\ closed_ \in Seq(DOMAIN entry)
      BY <1>3 DEF IInv, ClosedOK
    <3>2. \A i \in DOMAIN closed_ : closed_[i] \in DOMAIN entry' /\ closed_[i] # 0
      BY <1>1, <2>1 DEF IInv, ClosedOK, TableOK
    <3>3. closed_ \in Seq(DOMAIN entry')
      BY <3>1, <3>2
    <3> QED
      BY <2>2, <3>1, <3>2, <3>3 DEF IInv, ClosedOK
  <2>9. KernelOK'
    <3>1. \A f \in DOMAIN epoll : Settled(f)' => Settled(f)
      BY <1>1, <2>4, <2>5 DEF Settled
    <3>2. \A f \in DOMAIN epoll : /\ f # fd /\ fd2data_[f] \in DOMAIN entry \ {e}
                                  /\ fd2data_'[f] = fd2data_[f]
      BY <1>1, <2>2 DEF IInv, KernelOK, TableOK
    <3> QED
      BY <1>1, <2>1, <2>2, <2>5, <2>6, <3>1, <3>2 DEF IInv, KernelOK
  <2>10. CallerOK'
    <3>1. \A d \in Caller : at'[d] # "idle" =>
             /\ d # c /\ at'[d] = at[d] /\ arg[d] # fd /\ arg[d] \in opened /\ arg[d] \in Fds
             /\ ready'[arg[d]] = ready[arg[d]]
      BY <1>1, <2>4, <2>6 DEF IInv, CallerOK, KernelOK
    <3>2. \A d \in Caller : at'[d] \in {"ctl", "modr", "set", "mod"} =>
             /\ arg[d] \in DOMAIN fd2data_ /\ fd2data_'[arg[d]] = fd2data_[arg[d]]
             /\ fd2data_[arg[d]] # 0 => entry'[fd2data_[arg[d]]] = entry[fd2data_[arg[d]]]
      BY <2>1, <2>2, <3>1 DEF IInv, CallerOK, TableOK
    <3>3. arg' = arg /\ arg \in [Caller -> 0 .. MaxFd]
      BY <1>1 DEF IInv, CallerOK
    <3>4. \A d \in Caller : at'[d] # "idle" =>
             /\ arg[d] \in opened' /\ (at[d] = "crash" => "hup" \in ready'[arg[d]])
             /\ at[d] \in {"add", "ctl"} => arg[d] \notin DOMAIN epoll'
      BY <2>5, <3>1 DEF IInv, CallerOK
    <3>5. \A d \in Caller : at'[d] \in {"modr", "set", "mod"} /\ arg[d] \in DOMAIN epoll'
                                => epoll'[arg[d]].mask = {}
      BY <2>5, <3>1 DEF IInv, CallerOK
    <3>6. \A d \in Caller : at'[d] \in {"ctl", "modr", "set", "mod"} =>
             /\ arg[d] \in DOMAIN fd2data_'
             /\ at'[d] = "ctl" => fd2data_'[arg[d]] # 0
             /\ at'[d] \in {"modr", "set"} /\ fd2data_'[arg[d]] = 0 => "hup" \in ready'[arg[d]]
             /\ at'[d] = "mod" /\ fd2data_'[arg[d]] # 0 => entry'[fd2data_'[arg[d]]].event_ = {"in"}
      BY <2>2, <3>1, <3>2 DEF IInv, CallerOK
    <3>7. \A b, d \in Caller : at'[b] # "idle" /\ at'[d] # "idle" /\ arg[b] = arg[d] => b = d
      BY <3>1 DEF IInv, CallerOK
    <3> QED
      BY <2>4, <3>1, <3>3, <3>4, <3>5, <3>6, <3>7 DEF CallerOK
  <2>11. BatchOK'
    <3>1. \A d \in Caller : at'[d] \in {"modr", "set"} =>
             at'[d] = at[d] /\ ready'[arg[d]] = ready[arg[d]]
      BY <2>4, <2>6 DEF IInv, CallerOK, KernelOK
    <3>2. \A event \in events : event.ptr # 0 =>
             event.ptr # e /\ entry'[event.ptr] = entry[event.ptr]
      BY <1>1, <2>1 DEF IInv, BatchOK
    <3>3. UNCHANGED <<arg, events, loop, inloop_>>
      BY <1>1 DEF loopVars
    <3> QED
      BY <2>1, <2>5, <3>1, <3>2, <3>3 DEF IInv, BatchOK
  <2> QED
    BY <2>7, <2>8, <2>9, <2>10, <2>11 DEF IInv
<1> QED
    BY <1>2, <1>3 DEF CtlAdd

LEMMA ModrStep == ASSUME IInv, NEW c \in Caller, Modr(c) PROVE IInv'
<1>1. at[c] = "modr" /\ UNCHANGED <<tableVars, eventfd, loopVars, arg>>
    BY DEF Modr
<1>2. CASE InTable(arg[c])
  <2>1. Goto(c, "set") /\ UNCHANGED kernelVars
    BY <1>2 DEF Modr
  <2>2. /\ at' \in [Caller -> {"idle", "add", "ctl", "modr", "set", "mod", "crash"}]
        /\ at'[c] = "set" /\ \A d \in Caller \ {c} : at'[d] = at[d]
        /\ \A d \in Caller \ {c} : at[d] # "idle" => arg[d] # arg[c]
    BY <1>1, <2>1, GotoFacts
  <2>3. fd2data_' = fd2data_ /\ maxfd_' = maxfd_ /\ entry' = entry /\ closed_' = closed_
    BY <1>1 DEF tableVars
  <2>4. fd2data_size_' = fd2data_size_
    BY <2>3, SameSize
  <2>5. TableOK' /\ ClosedOK'
    BY <2>3, <2>4 DEF IInv, TableOK, ClosedOK
  <2>6. \A f \in DOMAIN epoll : Settled(f)' => Settled(f)
    BY <1>1, <2>1, <2>2 DEF Settled, kernelVars
  <2>7. KernelOK'
    BY <2>1, <2>3, <2>6 DEF IInv, KernelOK, kernelVars
  <2>8. CallerOK'
    BY <1>1, <2>1, <2>2, <2>3 DEF IInv, CallerOK, kernelVars
  <2>9. BatchOK'
    BY <1>1, <2>1, <2>2, <2>3 DEF IInv, BatchOK, kernelVars, loopVars
  <2> QED
    BY <2>5, <2>7, <2>8, <2>9 DEF IInv
<1>3. CASE ~ InTable(arg[c])
  <2>1. arg[c] \in DOMAIN fd2data_ /\ arg[c] \in Nat
    BY <1>1 DEF IInv, CallerOK, TableOK
  <2>2. fd2data_[arg[c]] = 0
    BY <1>3, <2>1 DEF InTable, IInv, TableOK
  <2>3. arg[c] \notin DOMAIN epoll
    BY <2>2 DEF IInv, KernelOK
  <2> QED
    BY <1>1, <1>3, <2>3, FailStep DEF Modr
<1> QED
    BY <1>2, <1>3

LEMMA SetEventStep == ASSUME IInv, NEW c \in Caller, SetEvent(c) PROVE IInv'
<1> DEFINE fd == arg[c]
           e == fd2data_[fd]
<1>1. /\ at[c] = "set" /\ UNCHANGED <<fd2data_, maxfd_, closed_, kernelVars, loopVars, arg>>
      /\ fd \in DOMAIN fd2data_
    BY DEF SetEvent, IInv, CallerOK
<1>1a. UNCHANGED <<epoll, ready, opened>>
    BY <1>1 DEF kernelVars
<1>2. fd2data_size_' = fd2data_size_
    BY <1>1, SameSize
<1>3. CASE e = 0
  <2>1. Goto(c, "crash") /\ entry' = entry
    BY <1>3 DEF SetEvent
  <2>2. /\ at' \in [Caller -> {"idle", "add", "ctl", "modr", "set", "mod", "crash"}]
        /\ at'[c] = "crash" /\ \A d \in Caller \ {c} : at'[d] = at[d]
        /\ \A d \in Caller \ {c} : at[d] # "idle" => arg[d] # fd
    BY <1>1, <2>1, GotoFacts
  <2>3. TableOK' /\ ClosedOK'
    BY <1>1, <1>2, <2>1 DEF IInv, TableOK, ClosedOK
  <2>4. \A f \in DOMAIN epoll : Settled(f)' => Settled(f)
    BY <1>1, <1>1a, <2>2 DEF Settled
  <2>5. KernelOK'
    BY <1>1, <1>1a, <2>1, <2>4 DEF IInv, KernelOK
  <2>6. CallerOK'
    BY <1>1, <1>1a, <1>3, <2>1, <2>2 DEF IInv, CallerOK
  <2>7. BatchOK'
    BY <1>1, <1>1a, <2>1, <2>2 DEF IInv, BatchOK, loopVars
  <2> QED
    BY <2>3, <2>5, <2>6, <2>7 DEF IInv
<1>4. CASE e # 0
  <2>1. Goto(c, "mod") /\ entry' = [entry EXCEPT ![e].event_ = {"in"}]
    BY <1>4 DEF SetEvent
  <2>2. /\ at' \in [Caller -> {"idle", "add", "ctl", "modr", "set", "mod", "crash"}]
        /\ at'[c] = "mod" /\ \A d \in Caller \ {c} : at'[d] = at[d]
        /\ \A d \in Caller \ {c} : at[d] # "idle" => arg[d] # fd
    BY <1>1, <2>1, GotoFacts
  <2>3. e \in DOMAIN entry /\ entry[e].fd_ = fd /\ entry[e] \in [fd_ : Fds, event_ : SUBSET {"in"}]
    BY <1>1, <1>4 DEF IInv, TableOK
  <2>4. /\ DOMAIN entry' = DOMAIN entry
        /\ entry'[e].event_ = {"in"} /\ entry'[e].fd_ = fd
        /\ entry'[e] \in [fd_ : Fds, event_ : SUBSET {"in"}]
        /\ \A x \in DOMAIN entry \ {e} : entry'[x] = entry[x]
    BY <2>1, <2>3
  <2>5. \A i \in DOMAIN fd2data_ \ {fd} : fd2data_[i] # 0 =>
           fd2data_[i] # e /\ entry'[fd2data_[i]] = entry[fd2data_[i]]
    BY <1>4, <2>3, <2>4 DEF IInv, TableOK
  <2>6. \A x \in DOMAIN entry : entry'[x].fd_ = entry[x].fd_
    BY <2>3, <2>4
  <2>7. TableOK'
    BY <1>1, <1>2, <2>4, <2>6 DEF IInv, TableOK
  <2>8. ClosedOK'
    BY <1>1, <2>4 DEF IInv, ClosedOK
  <2>9. KernelOK'
    <3>1. \A f \in DOMAIN epoll : Settled(f)' => Settled(f) /\ f # fd
      BY <1>1, <1>1a, <2>2 DEF Settled
    <3>2. \A f \in DOMAIN epoll : f \in DOMAIN fd2data_ /\ fd2data_[f] # 0
      BY DEF IInv, KernelOK
    <3>3. \A f \in DOMAIN epoll : Settled(f)' => entry'[fd2data_[f]] = entry[fd2data_[f]]
      BY <2>5, <3>1, <3>2
    <3> QED
      BY <1>1, <1>1a, <3>1, <3>3 DEF IInv, KernelOK
  <2>10. CallerOK'
    BY <1>1, <1>1a, <2>2, <2>4, <2>5 DEF IInv, CallerOK
  <2>11. BatchOK'
    BY <1>1, <1>1a, <2>2, <2>4, <2>6 DEF IInv, BatchOK, loopVars
  <2> QED
    BY <2>7, <2>8, <2>9, <2>10, <2>11 DEF IInv
<1> QED
    BY <1>3, <1>4

LEMMA ModStep == ASSUME IInv, NEW c \in Caller, Mod(c) PROVE IInv'
<1> DEFINE fd == arg[c]
           e == fd2data_[fd]
<1>1. /\ at[c] = "mod" /\ UNCHANGED <<tableVars, eventfd, loopVars, arg>>
      /\ fd \in DOMAIN fd2data_
    BY DEF Mod, IInv, CallerOK
<1>2. CASE e = 0 \/ fd \notin DOMAIN epoll
  <2>1. fd \notin DOMAIN epoll
    BY <1>2 DEF IInv, KernelOK
  <2> QED
    BY <1>1, <1>2, <2>1, FailStep DEF Mod
<1>3. CASE e # 0 /\ fd \in DOMAIN epoll
  <2>1. /\ epoll' = [epoll EXCEPT ![fd] = [ptr |-> e, mask |-> entry[e].event_]]
        /\ Goto(c, "idle") /\ UNCHANGED <<ready, opened>>
    BY <1>3 DEF Mod
  <2>2. /\ at' \in [Caller -> {"idle", "add", "ctl", "modr", "set", "mod", "crash"}]
        /\ at'[c] = "idle" /\ \A d \in Caller \ {c} : at'[d] = at[d]
        /\ \A d \in Caller \ {c} : at[d] # "idle" => arg[d] # fd
    BY <1>1, <2>1, GotoFacts
  <2>3. /\ entry[e].event_ = {"in"} /\ epoll[fd].ptr = e /\ e \in 1 .. MaxEntry
    BY <1>1, <1>3 DEF IInv, CallerOK, KernelOK
  <2>4. /\ DOMAIN epoll' = DOMAIN epoll
        /\ epoll'[fd] = [ptr |-> e, mask |-> {"in"}]
        /\ \A f \in DOMAIN epoll \ {fd} : epoll'[f] = epoll[f]
    BY <1>3, <2>1, <2>3
  <2>5. fd2data_' = fd2data_ /\ maxfd_' = maxfd_ /\ entry' = entry /\ closed_' = closed_
    BY <1>1 DEF tableVars
  <2>6. fd2data_size_' = fd2data_size_
    BY <2>5, SameSize
  <2>7. TableOK' /\ ClosedOK'
    BY <2>5, <2>6 DEF IInv, TableOK, ClosedOK
  <2>8. KernelOK'
    <3>1. \A f \in DOMAIN epoll \ {fd} : Settled(f)' => Settled(f)
      BY <1>1, <2>2, <2>4 DEF Settled
    <3> QED
      BY <1>1, <1>3, <2>1, <2>3, <2>4, <2>5, <3>1 DEF IInv, KernelOK
  <2>9. CallerOK'
    BY <1>1, <2>1, <2>2, <2>4, <2>5 DEF IInv, CallerOK
  <2>10. \A f \in DOMAIN epoll : epoll'[f].ptr = epoll[f].ptr
    BY <2>3, <2>4
  <2>11. BatchOK'
    BY <1>1, <2>1, <2>2, <2>4, <2>5, <2>10 DEF IInv, BatchOK, loopVars
  <2> QED
    BY <2>7, <2>8, <2>9, <2>11 DEF IInv
<1> QED
    BY <1>2, <1>3

----------------------------------------------------------------------------
(* The steps that only move the loop thread. *)
LEMMA LoopOnly ==
    ASSUME IInv, UNCHANGED <<tableVars, kernelVars, callerVars, events>>,
           inloop_' \in BOOLEAN, loop' \in {"wait", "events"} => inloop_',
           loop' # "events" => events = {}
    PROVE  IInv'
<1> USE DEF IInv, tableVars, kernelVars, callerVars
<1>1. fd2data_size_' = fd2data_size_
    BY SameSize
<1>2. TableOK' /\ ClosedOK'
    BY <1>1 DEF TableOK, ClosedOK
<1>3. KernelOK' /\ CallerOK'
    BY DEF KernelOK, CallerOK, Settled
<1>4. BatchOK'
    BY DEF BatchOK
<1> QED
    BY <1>2, <1>3, <1>4

LEMMA StartLoopStep == ASSUME IInv, StartLoop PROVE IInv'
BY LoopOnly DEF StartLoop, callerVars, IInv, BatchOK

LEMMA TimersStep == ASSUME IInv, Timers PROVE IInv'
BY LoopOnly DEF Timers, callerVars, IInv, BatchOK

LEMMA AgainStep == ASSUME IInv, Again PROVE IInv'
BY LoopOnly DEF Again, callerVars, IInv, BatchOK

LEMMA StopStep == ASSUME IInv, Stop PROVE IInv'
BY LoopOnly DEF Stop, callerVars, IInv, BatchOK

LEMMA StutterStep == ASSUME IInv, UNCHANGED driverVars PROVE IInv'
BY LoopOnly DEF driverVars, loopVars, IInv, BatchOK

(* A deletion takes an entry out of the table; what was freed or deferred  *)
(* is in no other place.                                                   *)
LEMMA DeletedEntry ==
    ASSUME IInv, NEW fd \in DOMAIN fd2data_, fd2data_[fd] # 0, maxfd_' = maxfd_,
           fd2data_' = [fd2data_ EXCEPT ![fd] = 0],
           \/ closed_' = Append(closed_, fd2data_[fd]) /\ entry' = entry
           \/ entry' = Without(entry, fd2data_[fd]) /\ closed_' = closed_
    PROVE  /\ TableOK' /\ ClosedOK'
           /\ DOMAIN fd2data_' = DOMAIN fd2data_ /\ fd2data_'[fd] = 0
           /\ \A i \in DOMAIN fd2data_ \ {fd} :
                 /\ fd2data_'[i] = fd2data_[i]
                 /\ fd2data_[i] # 0 => entry'[fd2data_[i]] = entry[fd2data_[i]]
<1> DEFINE e == fd2data_[fd]
<1>1. e \in DOMAIN entry /\ entry[e].fd_ = fd
    BY DEF IInv, TableOK
<1>2. /\ DOMAIN fd2data_' = DOMAIN fd2data_ /\ fd2data_'[fd] = 0
      /\ \A i \in DOMAIN fd2data_ \ {fd} : fd2data_'[i] = fd2data_[i]
      /\ \A i \in DOMAIN fd2data_ \ {fd} : fd2data_[i] # e
    BY <1>1 DEF IInv, TableOK
<1>3. fd2data_size_' = fd2data_size_
    BY <1>2, SameSize
<1>4. CASE closed_' = Append(closed_, e) /\ entry' = entry
  <2>1. TableOK'
    BY <1>2, <1>3, <1>4 DEF IInv, TableOK
  <2>2. /\ closed_ \in Seq(DOMAIN entry)
        /\ \A i, j \in DOMAIN closed_ : closed_[i] = closed_[j] => i = j
        /\ \A i \in DOMAIN closed_, f \in DOMAIN fd2data_ : closed_[i] # fd2data_[f]
    BY DEF IInv, ClosedOK
  <2> HIDE DEF e
  <2>3. /\ closed_' \in Seq(DOMAIN entry') /\ Len(closed_') = Len(closed_) + 1
        /\ DOMAIN closed_' = 1 .. Len(closed_) + 1 /\ DOMAIN closed_ = 1 .. Len(closed_)
        /\ Len(closed_) \in Nat
        /\ \A i \in 1 .. Len(closed_) : closed_'[i] = closed_[i]
        /\ closed_'[Len(closed_) + 1] = e
    BY <1>1, <1>4, <2>2
  <2>4. \A i \in 1 .. Len(closed_) : closed_[i] # e
    BY <2>2, <2>3 DEF e
  <2>5. \A i, j \in DOMAIN closed_' : closed_'[i] = closed_'[j] => i = j
    BY <2>2, <2>3, <2>4
  <2>6. \A i \in 1 .. Len(closed_) : closed_[i] \in DOMAIN entry /\ closed_[i] # 0
    BY <2>2, <2>3 DEF IInv, TableOK
  <2>7. e # 0
    BY DEF e
  <2>8. \A i \in DOMAIN closed_', f \in DOMAIN fd2data_' : closed_'[i] # fd2data_'[f]
    BY <1>2, <2>2, <2>3, <2>6, <2>7
  <2>9. ClosedOK'
    BY <2>3, <2>5, <2>8 DEF ClosedOK
  <2> QED
    BY <1>2, <1>4, <2>1, <2>9
<1>5. CASE entry' = Without(entry, e) /\ closed_' = closed_
  <2>1. /\ DOMAIN entry' = DOMAIN entry \ {e}
        /\ \A x \in DOMAIN entry \ {e} : entry'[x] = entry[x]
    BY <1>5 DEF Without
  <2>2. TableOK'
    BY <1>2, <1>3, <2>1 DEF IInv, TableOK
  <2>3. closed_' = closed_ /\ closed_ \in Seq(DOMAIN entry)
    BY <1>5 DEF IInv, ClosedOK
  <2>4. \A i \in DOMAIN closed_ : closed_[i] \in DOMAIN entry' /\ closed_[i] # 0
    BY <2>1, <2>3 DEF IInv, ClosedOK, TableOK
  <2>5. closed_ \in Seq(DOMAIN entry')
    BY <2>3, <2>4
  <2>6. ClosedOK'
    BY <1>2, <2>3, <2>4, <2>5 DEF IInv, ClosedOK
  <2>7. \A i \in DOMAIN fd2data_ \ {fd} : fd2data_[i] # 0 => fd2data_[i] \in DOMAIN entry \ {e}
    BY <1>2 DEF IInv, TableOK
  <2> QED
    BY <1>2, <2>1, <2>2, <2>6, <2>7
<1> QED
    BY <1>4, <1>5

(* Closing a descriptor whose registration is over, between two polls. *)
LEMMA CloseSettled ==
    ASSUME IInv, NEW fd, Settled(fd), CloseFd(fd), UNCHANGED callerVars,
           TableOK', ClosedOK', DOMAIN fd2data_' = DOMAIN fd2data_,
           \A i \in DOMAIN fd2data_ \ {fd} :
                 /\ fd2data_'[i] = fd2data_[i]
                 /\ fd2data_[i] # 0 => entry'[fd2data_[i]] = entry[fd2data_[i]],
           events = {}, events' = {}, inloop_' \in BOOLEAN,
           loop' \in {"wait", "events"} => inloop_'
    PROVE  IInv'
<1>1. /\ fd \in DOMAIN epoll /\ fd \in Fds
      /\ at' = at /\ arg' = arg
      /\ \A d \in Caller : at[d] # "idle" => arg[d] # fd
    BY DEF Settled, IInv, KernelOK, callerVars
<1>2. /\ DOMAIN epoll' = DOMAIN epoll \ {fd} /\ opened' = opened \ {fd}
      /\ \A f \in DOMAIN epoll \ {fd} : epoll'[f] = epoll[f]
    BY DEF CloseFd, Without
<1>3. /\ ready' \in [Fds -> SUBSET Hangup]
      /\ \A f \in Fds \ {fd} : ready'[f] = ready[f]
    BY <1>1 DEF CloseFd, IInv, KernelOK
<1>4. KernelOK'
  <2>1. \A f \in DOMAIN epoll' : Settled(f)' => Settled(f)
    BY <1>1, <1>2 DEF Settled
  <2> QED
    BY <1>1, <1>2, <1>3, <2>1 DEF IInv, KernelOK
<1>5. CallerOK'
  <2>1. \A d \in Caller : at[d] # "idle" =>
           /\ arg[d] # fd /\ arg[d] \in opened' /\ ready'[arg[d]] = ready[arg[d]]
    BY <1>1, <1>2, <1>3 DEF IInv, CallerOK, KernelOK
  <2> QED
    BY <1>1, <1>2, <2>1 DEF IInv, CallerOK
<1>6. BatchOK'
    BY DEF BatchOK
<1> QED
    BY <1>4, <1>5, <1>6 DEF IInv

LEMMA TimerCloseStep == ASSUME IInv, NEW fd \in Fds, TimerClose(fd) PROVE IInv'
<1>1. /\ Settled(fd) /\ CloseFd(fd) /\ UNCHANGED callerVars
      /\ maxfd_' = maxfd_ /\ inloop_' = TRUE /\ events' = events /\ events = {}
      /\ fd2data_' = [fd2data_ EXCEPT ![fd] = 0]
    BY DEF TimerClose, callerVars, IInv, BatchOK
<1>2. \/ closed_' = Append(closed_, fd2data_[fd]) /\ entry' = entry
      \/ entry' = Without(entry, fd2data_[fd]) /\ closed_' = closed_
    BY DEF TimerClose
<1>3. fd \in DOMAIN fd2data_ /\ fd2data_[fd] # 0
    BY <1>1 DEF Settled, IInv, KernelOK
<1> QED
    BY <1>1, <1>2, <1>3, DeletedEntry, CloseSettled

LEMMA DestroyStep == ASSUME IInv, NEW fd \in Fds, Destroy(fd) PROVE IInv'
<1>1. /\ Settled(fd) /\ CloseFd(fd) /\ UNCHANGED <<tableVars, loopVars, callerVars>>
      /\ loop = "call" /\ events = {}
    BY DEF Destroy, IInv, BatchOK
<1>2. fd2data_' = fd2data_ /\ maxfd_' = maxfd_ /\ entry' = entry /\ closed_' = closed_
    BY <1>1 DEF tableVars
<1>3. events' = {} /\ inloop_' \in BOOLEAN /\ loop' = "call"
    BY <1>1 DEF loopVars, IInv, BatchOK
<1>4. fd2data_size_' = fd2data_size_
    BY <1>2, SameSize
<1>5. TableOK' /\ ClosedOK'
    BY <1>2, <1>4 DEF IInv, TableOK, ClosedOK
<1> QED
    BY <1>1, <1>2, <1>3, <1>5, CloseSettled

LEMMA WaitStep == ASSUME IInv, ~ Crashed, Wait PROVE IInv'
<1> DEFINE seen == [fd \in DOMAIN epoll |->
                       ready[fd] \cap (epoll[fd].mask \cup {"hup"} \cup
                                       IF epoll[fd].mask = {} THEN {} ELSE {"rdhup"})]
           batch == {[ptr |-> epoll[fd].ptr, flags |-> seen[fd]] :
                       fd \in {fd \in DOMAIN epoll : seen[fd] # {}}}
                    \cup IF eventfd THEN {[ptr |-> 0, flags |-> {"in"}]} ELSE {}
<1>1. /\ loop = "wait" /\ events' = batch
      /\ loop' = IF batch = {} THEN AfterPoll ELSE "events"
      /\ ready' = [fd \in Fds |-> IF fd \in DOMAIN epoll /\ epoll[fd].mask # {}
                                  THEN ready[fd] \ seen[fd] ELSE ready[fd]]
      /\ UNCHANGED <<tableVars, epoll, opened, inloop_, callerVars>>
    BY DEF Wait
<1>2. fd2data_' = fd2data_ /\ maxfd_' = maxfd_ /\ entry' = entry /\ closed_' = closed_
    BY <1>1 DEF tableVars
<1>3. at' = at /\ arg' = arg /\ epoll' = epoll /\ opened' = opened
    BY <1>1 DEF callerVars
<1>4. fd2data_size_' = fd2data_size_
    BY <1>2, SameSize
<1>5. TableOK' /\ ClosedOK'
    BY <1>2, <1>4 DEF IInv, TableOK, ClosedOK
<1>6. /\ ready' \in [Fds -> SUBSET Hangup]
      /\ \A fd \in Fds : fd \notin DOMAIN epoll \/ epoll[fd].mask = {} => ready'[fd] = ready[fd]
    BY <1>1 DEF IInv, KernelOK
<1>7. \A fd \in DOMAIN epoll : epoll[fd].mask = {} => seen[fd] \subseteq ready[fd] \cap {"hup"}
    OBVIOUS
<1>8. \A event \in batch : event.ptr # 0 =>
         \E fd \in DOMAIN epoll : event.ptr = epoll[fd].ptr /\ event.flags = seen[fd]
    OBVIOUS
<1>9. \A event \in batch : event.ptr = 0 => event = [ptr |-> 0, flags |-> {"in"}]
  <2>1. \A fd \in DOMAIN epoll : epoll[fd].ptr # 0
    BY DEF IInv, KernelOK
  <2> HIDE DEF seen
  <2> QED
    BY <2>1
<1>9a. \A one \in batch, fd \in DOMAIN epoll :
          one.ptr = epoll[fd].ptr /\ one.ptr # 0 => one = [ptr |-> epoll[fd].ptr, flags |-> seen[fd]]
  <2> HIDE DEF seen
  <2>1. \A f, g \in DOMAIN epoll : epoll[f].ptr = epoll[g].ptr => f = g
    BY DEF IInv, KernelOK, TableOK
  <2> QED
    BY <2>1
<1> HIDE DEF seen, batch
<1>10. KernelOK'
  <2>1. \A fd \in DOMAIN epoll : Settled(fd)' => Settled(fd)
    BY <1>3 DEF Settled
  <2> QED
    BY <1>2, <1>3, <1>6, <2>1 DEF IInv, KernelOK
<1>11. CallerOK'
  <2>1. \A c \in Caller : at[c] # "crash"
    BY DEF Crashed
  <2>2. \A c \in Caller : at[c] \in {"modr", "set"} /\ fd2data_[arg[c]] = 0
                             => ready'[arg[c]] = ready[arg[c]]
    BY <1>6 DEF IInv, CallerOK, KernelOK
  <2> QED
    BY <1>2, <1>3, <2>1, <2>2 DEF IInv, CallerOK
<1>12. BatchOK'
  <2>1. \A event \in batch : event.ptr # 0 =>
           /\ event.ptr \in DOMAIN entry
           /\ entry[event.ptr].fd_ \in DOMAIN epoll
           /\ epoll[entry[event.ptr].fd_].ptr = event.ptr
           /\ event.flags = seen[entry[event.ptr].fd_]
    BY <1>8 DEF IInv, KernelOK, TableOK
  <2>2. \A event \in batch, c \in Caller :
           event.ptr # 0 /\ at[c] \in {"modr", "set"} /\ arg[c] = entry[event.ptr].fd_
              => event.flags \subseteq ready'[arg[c]] \cap {"hup"}
    BY <1>6, <1>7, <2>1 DEF IInv, CallerOK, KernelOK
  <2>3. \A one, other \in batch : one.ptr = other.ptr => one = other
    BY <1>8, <1>9, <1>9a
  <2>4. inloop_' = inloop_ /\ inloop_ \in BOOLEAN /\ inloop_
    BY <1>1 DEF IInv, BatchOK
  <2>5. events' = batch /\ (loop' # "events" => batch = {})
    BY <1>1
  <2>6. inloop_' \in BOOLEAN /\ (loop' \in {"wait", "events"} => inloop_')
    BY <2>4
  <2> QED
    BY <1>2, <1>3, <2>1, <2>2, <2>3, <2>5, <2>6 DEF BatchOK
<1> QED
    BY <1>5, <1>10, <1>11, <1>12 DEF IInv

LEMMA HandleStep == ASSUME IInv, NEW event \in events, Handle(event) PROVE IInv'
<1>1. /\ loop = "events" /\ inloop_ = TRUE /\ events' = events \ {event}
      /\ maxfd_' = maxfd_ /\ at' = at /\ arg' = arg /\ ready' = ready /\ opened' = opened
    BY DEF Handle, callerVars, IInv, BatchOK
<1>2. /\ inloop_' \in BOOLEAN /\ (loop' \in {"wait", "events"} => inloop_')
      /\ (loop' # "events" => events' = {})
    BY <1>1 DEF Handle, AfterPoll
<1>3. CASE UNCHANGED <<entry, closed_, fd2data_, epoll>>
  <2>1. fd2data_size_' = fd2data_size_
    BY <1>3, SameSize
  <2>2. TableOK' /\ ClosedOK'
    BY <1>1, <1>3, <2>1 DEF IInv, TableOK, ClosedOK
  <2>3. KernelOK'
    BY <1>1, <1>3 DEF IInv, KernelOK, Settled
  <2>4. CallerOK'
    BY <1>1, <1>3 DEF IInv, CallerOK
  <2>5. BatchOK'
    BY <1>1, <1>2, <1>3 DEF IInv, BatchOK
  <2> QED
    BY <2>2, <2>3, <2>4, <2>5 DEF IInv
<1>4. CASE ~ UNCHANGED <<entry, closed_, fd2data_, epoll>>
  <2> DEFINE fd == entry[event.ptr].fd_
  <2>1. event.ptr # 0 /\ event.flags \cap Hangup # {} /\ Del(fd)
    BY <1>4 DEF Handle
  <2>2. /\ fd \in DOMAIN epoll /\ epoll[fd].ptr = event.ptr /\ fd \in Fds
        /\ fd \in DOMAIN fd2data_ /\ fd2data_[fd] = event.ptr
    BY <2>1 DEF IInv, BatchOK, KernelOK
  <2>3. /\ closed_' = Append(closed_, fd2data_[fd]) /\ entry' = entry
        /\ fd2data_' = [fd2data_ EXCEPT ![fd] = 0]
        /\ epoll' = Without(epoll, fd)
    BY <1>1, <1>4, <2>1 DEF Del
  <2> HIDE DEF fd
  <2>4. /\ TableOK' /\ ClosedOK'
        /\ DOMAIN fd2data_' = DOMAIN fd2data_ /\ fd2data_'[fd] = 0
        /\ \A i \in DOMAIN fd2data_ \ {fd} : fd2data_'[i] = fd2data_[i]
    BY <1>1, <2>1, <2>2, <2>3, DeletedEntry
  <2>5. /\ DOMAIN epoll' = DOMAIN epoll \ {fd}
        /\ \A f \in DOMAIN epoll \ {fd} : epoll'[f] = epoll[f]
    BY <2>3 DEF Without
  <2>6. \A f \in DOMAIN epoll' : Settled(f)' => Settled(f)
    BY <1>1, <2>5 DEF Settled
  <2>7. KernelOK'
    BY <1>1, <2>3, <2>4, <2>5, <2>6 DEF IInv, KernelOK
  <2>8. CallerOK'
    <3>1. \A c \in Caller : at[c] \in {"modr", "set"} /\ arg[c] = fd => "hup" \in ready[arg[c]]
      BY <2>1 DEF IInv, BatchOK, Hangup, fd
    <3>2. \A c \in Caller : at[c] = "ctl" => arg[c] # fd
      BY <2>2 DEF IInv, CallerOK
    <3> QED
      BY <1>1, <2>3, <2>4, <2>5, <3>1, <3>2 DEF IInv, CallerOK
  <2>9. BatchOK'
    <3>1. \A other \in events' : other.ptr # 0 => entry[other.ptr].fd_ \in DOMAIN epoll \ {fd}
      BY <1>1, <2>1, <2>2 DEF IInv, BatchOK
    <3> QED
      BY <1>1, <1>2, <2>3, <2>5, <3>1 DEF IInv, BatchOK
  <2> QED
    BY <2>4, <2>7, <2>8, <2>9 DEF IInv
<1> QED
    BY <1>3, <1>4

LEMMA ArriveStep ==
    ASSUME IInv, NEW fd \in Fds, NEW flag \in Hangup, Arrive(fd, flag) PROVE IInv'
<1>1. /\ ready' = [ready EXCEPT ![fd] = @ \cup {flag}]
      /\ UNCHANGED <<fd2data_, maxfd_, entry, closed_, epoll, opened, at, arg>>
      /\ UNCHANGED <<inloop_, loop, events>>
    BY DEF Arrive, tableVars, loopVars, callerVars
<1>2. fd2data_size_' = fd2data_size_
    BY <1>1, SameSize
<1>3. TableOK' /\ ClosedOK'
    BY <1>1, <1>2 DEF IInv, TableOK, ClosedOK
<1>4. /\ ready' \in [Fds -> SUBSET Hangup]
      /\ \A f \in Fds : ready[f] \subseteq ready'[f]
    BY <1>1 DEF IInv, KernelOK
<1>5. KernelOK'
    BY <1>1, <1>4 DEF IInv, KernelOK, Settled
<1>6. \A c \in Caller : at[c] # "idle" => arg[c] \in Fds /\ ready[arg[c]] \subseteq ready'[arg[c]]
    BY <1>4 DEF IInv, CallerOK, KernelOK
<1>7. CallerOK'
    BY <1>1, <1>6 DEF IInv, CallerOK
<1>8. BatchOK'
    BY <1>1, <1>6 DEF IInv, BatchOK
<1> QED
    BY <1>3, <1>5, <1>7, <1>8 DEF IInv

LEMMA DriverInvStep == ASSUME IInv, [DriverNext]_driverVars PROVE IInv'
<1>1. ASSUME NEW c \in Caller, Open(c) \/ AddModr(c) PROVE IInv'
    BY <1>1, OpenStep, AddStep, CtlAddStep, ModrStep, SetEventStep, ModStep DEF AddModr
<1>2. ASSUME LoopStep, ~ Crashed PROVE IInv'
    BY <1>2, StartLoopStep, TimersStep, WaitStep, AgainStep, HandleStep DEF LoopStep
<1>3. ASSUME NEW fd \in Fds, TimerClose(fd) \/ Destroy(fd) PROVE IInv'
    BY <1>3, TimerCloseStep, DestroyStep
<1> QED
    BY <1>1, <1>2, <1>3, StopStep, ArriveStep, StutterStep DEF DriverNext

(* Every step of the threads that call AddModr and of the loop thread      *)
(* keeps the table, the kernel's set and the batch in agreement.           *)
THEOREM DriverInvariant == DriverSpec => []IInv
<1>1. DriverInit => IInv
    BY DriverInvInit
<1>2. IInv /\ [DriverNext]_driverVars => IInv'
    BY DriverInvStep
<1> QED
    BY <1>1, <1>2, PTL DEF DriverSpec

LEMMA IInvSuffices == IInv => DriverInv
<1> SUFFICES ASSUME IInv PROVE DriverInv
    OBVIOUS
<1>1. DOMAIN fd2data_ = 0 .. fd2data_size_ /\ maxfd_ <= fd2data_size_
    BY DEF IInv, TableOK
<1>2. NoDanglingEntry
  <2>1. Held \subseteq DOMAIN entry
    BY DEF Held, IInv, TableOK
  <2>2. \A fd \in DOMAIN epoll : epoll[fd].ptr \in DOMAIN entry
    BY DEF IInv, KernelOK, TableOK
  <2>3. \A i \in DOMAIN closed_ : closed_[i] \in DOMAIN entry
    BY DEF IInv, ClosedOK
  <2>4. \A event \in events : event.ptr # 0 => event.ptr \in DOMAIN entry
    BY DEF IInv, BatchOK
  <2> QED
    BY <2>1, <2>2, <2>3, <2>4 DEF NoDanglingEntry
<1>3. FreedOnce
    BY DEF FreedOnce, Held, IInv, TableOK, ClosedOK
<1>4. KernelAgrees
    BY DEF KernelAgrees, IInv, KernelOK, TableOK
<1>5. OnlyHangupCrashes
    BY DEF OnlyHangupCrashes, IInv, CallerOK
<1> QED
    BY <1>1, <1>2, <1>3, <1>4, <1>5 DEF DriverInv

(* Add, AddModr and Del on several threads, with the poll that defers what *)
(* it frees, never leave a pointer to a freed entry in the table, the      *)
(* kernel, the batch or the deferred list, free nothing twice, and give    *)
(* the kernel what the table says.                                         *)
THEOREM DriverCorrect == DriverSpec => []DriverInv
<1> QED
    BY DriverInvariant, IInvSuffices, PTL

----------------------------------------------------------------------------
(* Lifecycle: the network manager outlives the loops, and without a signal *)
(* nothing but a request comes too early.                                  *)

Threads == [thread : {"none", "running", "ended"}, run : BOOLEAN]
Stages == {"flag", "routers", "acceptor", "join acceptor", "io", "join io", "service", "free"}
Working == {"acceptor", "io", "services", "clients", "retry", "after"}

StartTypes ==
    /\ app \in {"init", "failed", "wait", "stop"} \cup Working
    /\ mgr \in {"none", "live", "freed"} /\ signals \in Nat /\ early \in BOOLEAN
    /\ looping \in [Loops -> {"none", "starting", "running", "ended"}]
    /\ keep \in [Loops -> BOOLEAN]
    /\ joinable \in [Loops -> {"null", "made", "deleted"}]
    /\ retry \in Threads
    /\ services \in Seq({"running", "ended"}) /\ serving \in BOOLEAN
    /\ stopping \in Seq(Stages)

(* What has been made, by how far AppStart has come. *)
MadeInOrder ==
    /\ app = "init" => mgr = "none" /\ retry.thread = "none"
                       /\ \A l \in Loops : joinable[l] = "null"
    /\ app \in Working => mgr = "live"
    /\ \A l \in Loops : looping[l] = "none" <=> joinable[l] = "null"
    /\ app \in (Working \ {"acceptor"}) \cup {"wait", "stop"} => joinable["acceptor"] # "null"
    /\ app \in (Working \ {"acceptor", "io"}) \cup {"wait", "stop"} => joinable["io"] # "null"
    /\ stopping # <<>> => app \in {"wait", "stop"}

(* What has ended, by how far each of the AppStops has come: those that    *)
(* were interrupted included. *)
EndedInOrder ==
    \A i \in DOMAIN stopping :
        /\ stopping[i] \notin {"flag", "routers"} => retry.thread # "running"
        /\ stopping[i] \in {"io", "join io", "service", "free"} => looping["acceptor"] = "ended"
        /\ stopping[i] \in {"service", "free"} => looping["io"] = "ended"

(* Until a signal comes nothing stops, and what uses the manager is made   *)
(* only if there is one. *)
NothingStops ==
    signals = 0 =>
        /\ ~early /\ stopping = <<>> /\ serving /\ app # "stop"
        /\ \A s \in DOMAIN services : services[s] = "running"
        /\ app \in {"clients", "retry", "after", "wait"} => services # <<>>
        /\ mgr # "live" => services = <<>> /\ retry.thread # "running"
        /\ app = "wait" => mgr = "live"

StartInv ==
    /\ StartTypes /\ NothingStops /\ OnlyRequestIsEarly
    /\ ~early => MadeInOrder /\ EndedInOrder /\ ManagerOutlivesLoops

otherVars == <<keep, clients, serving>>

----------------------------------------------------------------------------
LEMMA StartInit == LifecycleInit => StartInv
<1> SUFFICES ASSUME LifecycleInit PROVE StartInv
  OBVIOUS
<1> USE DEF LifecycleInit
<1>1. StartTypes
  <2>1. stopping \in Seq(Stages) /\ services \in Seq({"running", "ended"})
    OBVIOUS
  <2> QED BY <2>1 DEF StartTypes, Threads
<1>2. NothingStops /\ OnlyRequestIsEarly /\ ManagerOutlivesLoops
  BY DEF NothingStops, OnlyRequestIsEarly, ManagerOutlivesLoops
<1>3. MadeInOrder /\ EndedInOrder
  BY DEF MadeInOrder, EndedInOrder, Working
<1> QED BY <1>1, <1>2, <1>3 DEF StartInv

(* One AppStop goes on, or a new one interrupts it, or it returns.         *)
LEMMA ThenStep ==
    ASSUME stopping \in Seq(Stages), NEW from, NEW pc \in Stages, At(from), Then(pc)
    PROVE  /\ stopping' \in Seq(Stages) /\ stopping' # <<>>
           /\ Len(stopping) \in DOMAIN stopping /\ stopping[Len(stopping)] = from
           /\ DOMAIN stopping' = DOMAIN stopping
           /\ \A i \in DOMAIN stopping :
                 stopping'[i] = IF i = Len(stopping) THEN pc ELSE stopping[i]
BY DEF At, Then

LEMMA TypesKept ==
    ASSUME StartInv, LifecycleNext PROVE StartTypes'
<1> USE DEF StartInv, StartTypes, lifecycleVars, loopThreadVars, serviceVars, Main, Threads, Working
<1>1. CASE InitService
  BY <1>1 DEF InitService
<1>2. CASE StartServiceThread
  BY <1>2 DEF StartServiceThread
<1>3. CASE StartClients
  BY <1>3 DEF StartClients
<1>4. CASE StartReconnect
  BY <1>4 DEF StartReconnect
<1>5. CASE AfterStart
  BY <1>5 DEF AfterStart
<1>6. CASE WaitForService
  BY <1>6 DEF WaitForService, Stages
<1>7. CASE StopReconnect
  BY <1>7, ThenStep DEF StopReconnect, Stages
<1>8. CASE StopClients
  BY <1>8, ThenStep DEF StopClients, Stages
<1>9. CASE StopService
  BY <1>9, ThenStep DEF StopService, Stages
<1>10. CASE Free
  <2>1. stopping # <<>> /\ SubSeq(stopping, 1, Len(stopping) - 1) \in Seq(Stages)
    BY <1>10 DEF Free, At
  <2> QED BY <1>10, <2>1 DEF Free
<1>11. ASSUME NEW l \in Loops, StartThread(l) PROVE StartTypes'
  BY <1>11 DEF StartThread, Loops
<1>12. ASSUME NEW l \in Loops, StopLoop(l) PROVE StartTypes'
  <2>1. stopping' \in Seq(Stages)
    <3>1. Joining(l) \in Stages /\ AfterStopping(l) \in Stages
      BY DEF Joining, AfterStopping, Stages
    <3> QED BY <3>1, <1>12, ThenStep DEF StopLoop
  <2> QED BY <1>12, <2>1 DEF StopLoop
<1>13. ASSUME NEW l \in Loops, JoinLoop(l) PROVE StartTypes'
  <2>1. stopping' \in Seq(Stages)
    <3>1. AfterStopping(l) \in Stages
      BY DEF AfterStopping, Stages
    <3> QED BY <3>1, <1>13, ThenStep DEF JoinLoop
  <2> QED BY <1>13, <2>1 DEF JoinLoop
<1>14. CASE Signal
  <2>1. stopping' \in Seq(Stages)
    <3>1. "flag" \in Stages
      BY DEF Stages
    <3> QED BY <1>14, <3>1 DEF Signal
  <2>2. early' \in BOOLEAN /\ signals' \in Nat
    BY <1>14 DEF Signal
  <2> QED BY <1>14, <2>1, <2>2 DEF Signal
<1>15. CASE Request
  BY <1>15 DEF Request
<1>16. CASE Reconnect
  BY <1>16 DEF Reconnect
<1>17. ASSUME NEW l \in Loops, LoopBegins(l) \/ LoopEnds(l) PROVE StartTypes'
  BY <1>17 DEF LoopBegins, LoopEnds
<1>18. ASSUME NEW s \in DOMAIN services, Serve(s) PROVE StartTypes'
  <2>1. services' \in Seq({"running", "ended"})
    <3>1. CASE UNCHANGED services
      BY <3>1
    <3>2. CASE services' = [services EXCEPT ![s] = "ended"]
      BY <3>2
    <3> QED BY <3>1, <3>2, <1>18 DEF Serve
  <2> QED BY <1>18, <2>1 DEF Serve
<1> QED
  BY <1>1, <1>2, <1>3, <1>4, <1>5, <1>6, <1>7, <1>8, <1>9, <1>10, <1>11, <1>12, <1>13, <1>14, <1>15,
     <1>16, <1>17, <1>18 DEF LifecycleNext, MainStep

LEMMA QuietKept ==
    ASSUME StartInv, LifecycleNext PROVE NothingStops' /\ OnlyRequestIsEarly'
<1> SUFFICES ASSUME signals' = 0 PROVE NothingStops' /\ OnlyRequestIsEarly'
  BY DEF NothingStops, OnlyRequestIsEarly
<1> USE DEF lifecycleVars, loopThreadVars, serviceVars, Main
<1>0. signals = 0 /\ ~ Signal /\ signals \in Nat
  BY DEF LifecycleNext, MainStep, InitService, StartServiceThread, StartClients, StartReconnect,
         AfterStart, WaitForService, StopReconnect, StopClients, StopService, Free, StartThread,
         StopLoop, JoinLoop, LoopBegins, LoopEnds, Signal, Request, Reconnect, Serve, StartInv,
         StartTypes
<1>q. /\ ~early /\ stopping = <<>> /\ serving /\ app # "stop"
      /\ \A s \in DOMAIN services : services[s] = "running"
      /\ app \in {"clients", "retry", "after", "wait"} => services # <<>>
      /\ mgr # "live" => services = <<>> /\ retry.thread # "running"
      /\ app \in Working \cup {"wait"} => mgr = "live"
      /\ app = "init" => services = <<>> /\ retry.thread # "running"
      /\ services \in Seq({"running", "ended"}) /\ retry \in Threads
      /\ crash = "no"
  BY <1>0 DEF StartInv, NothingStops, MadeInOrder, StartTypes, LifecycleNext
<1>n. \A pc : ~ At(pc)
  BY <1>q DEF At
<1> USE DEF NothingStops, OnlyRequestIsEarly, Working, Threads
<1>1. CASE InitService
  BY <1>1, <1>q DEF InitService
<1>2. CASE StartServiceThread
  <2>1. services' = Append(services, "running") /\ services' # <<>>
        /\ \A s \in DOMAIN services' : services'[s] = "running"
    BY <1>2, <1>q DEF StartServiceThread
  <2>2. mgr' = "live" /\ app' \in {"services", "clients"}
    BY <1>2, <1>q DEF StartServiceThread
  <2> QED BY <1>2, <1>q, <2>1, <2>2 DEF StartServiceThread
<1>3. CASE StartClients
  BY <1>3, <1>q DEF StartClients
<1>4. CASE StartReconnect
  BY <1>4, <1>q DEF StartReconnect
<1>5. CASE AfterStart
  BY <1>5, <1>q DEF AfterStart
<1>6. CASE WaitForService
  BY <1>6, <1>q DEF WaitForService
<1>7. CASE StopReconnect \/ StopClients \/ StopService \/ Free \/ \E l \in Loops : StopLoop(l) \/ JoinLoop(l)
  BY <1>7, <1>n DEF StopReconnect, StopClients, StopService, Free, StopLoop, JoinLoop
<1>8. ASSUME NEW l \in Loops, StartThread(l) PROVE NothingStops' /\ OnlyRequestIsEarly'
  BY <1>8, <1>q DEF StartThread, Loops
<1>9. CASE Request
  BY <1>9, <1>q DEF Request
<1>10. CASE Reconnect
  BY <1>10, <1>q DEF Reconnect
<1>11. ASSUME NEW l \in Loops, LoopBegins(l) \/ LoopEnds(l) PROVE NothingStops' /\ OnlyRequestIsEarly'
  <2>1. UNCHANGED <<app, stopping, signals, early, mgr, retry, services, serving, crash>>
    BY <1>11 DEF LoopBegins, LoopEnds
  <2> QED BY <2>1, <1>q
<1>12. ASSUME NEW s \in DOMAIN services, Serve(s) PROVE NothingStops' /\ OnlyRequestIsEarly'
  BY <1>12, <1>q DEF Serve
<1> QED
  BY <1>0, <1>1, <1>2, <1>3, <1>4, <1>5, <1>6, <1>7, <1>8, <1>9, <1>10, <1>11, <1>12
     DEF LifecycleNext, MainStep

(* An AppStop goes on from one stage to the next, if what the next stage   *)
(* counts on has ended. *)
LEMMA StageStep ==
    ASSUME StartTypes, EndedInOrder, NEW from, NEW pc \in Stages, At(from), Then(pc),
           retry'.thread = "running" => retry.thread = "running",
           \A l \in Loops : looping[l] = "ended" => looping'[l] = "ended",
           pc \notin {"flag", "routers"} => retry'.thread # "running",
           pc \in {"io", "join io", "service", "free"} => looping'["acceptor"] = "ended",
           pc \in {"service", "free"} => looping'["io"] = "ended"
    PROVE  EndedInOrder' /\ stopping' # <<>> /\ stopping # <<>>
<1>1. /\ stopping' # <<>> /\ stopping # <<>>
      /\ DOMAIN stopping' = DOMAIN stopping
      /\ \A i \in DOMAIN stopping :
            stopping'[i] = IF i = Len(stopping) THEN pc ELSE stopping[i]
  BY ThenStep DEF StartTypes, At
<1> QED BY <1>1 DEF EndedInOrder, Loops

LEMMA NoStop == ASSUME stopping' = <<>> PROVE EndedInOrder'
<1>1. DOMAIN stopping' = {}
  OBVIOUS
<1> QED BY <1>1 DEF EndedInOrder

(* ... and if nothing moves but what other threads do.                     *)
LEMMA StageFrame ==
    ASSUME EndedInOrder, UNCHANGED stopping,
           stopping = <<>> \/ (retry'.thread = "running" => retry.thread = "running"),
           \A l \in Loops : looping[l] = "ended" => looping'[l] = "ended"
    PROVE  EndedInOrder'
<1>1. CASE stopping' = <<>>
  BY <1>1, NoStop
<1>2. CASE stopping # <<>>
  BY <1>2 DEF EndedInOrder, Loops
<1> QED BY <1>1, <1>2

(* What the last AppStop may count on.                                     *)
LEMMA AtStage ==
    ASSUME StartTypes, EndedInOrder
    PROVE  /\ \A pc : At(pc) => stopping # <<>>
           /\ \A l \in Loops : At(l) \/ At(Joining(l)) =>
                 retry.thread # "running" /\ (l = "io" => looping["acceptor"] = "ended")
           /\ At("service") \/ At("free") =>
                 retry.thread # "running" /\ \A l \in Loops : looping[l] = "ended"
<1>1. \A pc : At(pc) => stopping # <<>>
  BY DEF At
<1>2. ASSUME NEW pc, At(pc)
      PROVE  /\ pc \notin {"flag", "routers"} => retry.thread # "running"
             /\ pc \in {"io", "join io", "service", "free"} => looping["acceptor"] = "ended"
             /\ pc \in {"service", "free"} => looping["io"] = "ended"
  <2>1. stopping # <<>> /\ stopping[Len(stopping)] = pc
    BY <1>2 DEF At
  <2>2. Len(stopping) \in DOMAIN stopping
    BY <2>1 DEF StartTypes
  <2> QED BY <2>1, <2>2 DEF EndedInOrder
<1>3. ASSUME NEW l \in Loops, At(l) \/ At(Joining(l))
      PROVE  retry.thread # "running" /\ (l = "io" => looping["acceptor"] = "ended")
  <2>1. PICK pc : At(pc) /\ pc \in {l, Joining(l)}
    BY <1>3
  <2>2. pc \notin {"flag", "routers"} /\ (l = "io" => pc \in {"io", "join io"})
    BY <2>1 DEF Joining, Loops
  <2> QED BY <2>1, <2>2, <1>2
<1>4. ASSUME At("service") \/ At("free")
      PROVE  retry.thread # "running" /\ \A l \in Loops : looping[l] = "ended"
  <2>1. PICK pc : At(pc) /\ pc \in {"service", "free"}
    BY <1>4
  <2> QED BY <2>1, <1>2 DEF Loops
<1> QED BY <1>1, <1>3, <1>4

LEMMA OrderKept ==
    ASSUME StartInv, LifecycleNext, ~early'
    PROVE  MadeInOrder' /\ EndedInOrder' /\ ManagerOutlivesLoops'
<1> USE DEF lifecycleVars, loopThreadVars, serviceVars, Main
<1>e. ~early /\ (Signal => app \in {"wait", "stop"})
  BY DEF LifecycleNext, MainStep, InitService, StartServiceThread, StartClients, StartReconnect,
         AfterStart, WaitForService, StopReconnect, StopClients, StopService, Free, StartThread,
         StopLoop, JoinLoop, LoopBegins, LoopEnds, Signal, Request, Reconnect, Serve, StartInv,
         StartTypes
<1>i. StartTypes /\ MadeInOrder /\ EndedInOrder /\ ManagerOutlivesLoops
  BY <1>e DEF StartInv
<1>o. \A l \in Loops : looping[l] \in {"none", "ended"} <=> looping[l] \notin {"starting", "running"}
  BY <1>i DEF StartTypes
<1> DEFINE Goal == MadeInOrder' /\ EndedInOrder' /\ ManagerOutlivesLoops'
<1>1. CASE InitService
  <2>1. app = "init" /\ stopping = <<>> /\ app' \in {"acceptor", "failed"}
        /\ UNCHANGED <<looping, joinable, retry, stopping>> /\ (app' = "acceptor" => mgr' = "live")
    BY <1>1 DEF InitService
  <2>2. EndedInOrder'
    BY <2>1, <1>i, StageFrame
  <2>3. MadeInOrder' /\ ManagerOutlivesLoops'
    BY <2>1, <1>i DEF MadeInOrder, ManagerOutlivesLoops, Working
  <2> QED BY <2>2, <2>3
<1>2. CASE StartServiceThread \/ StartClients \/ AfterStart
  <2>1. /\ app \in {"services", "clients", "after"} /\ stopping = <<>>
        /\ app' \in {"services", "clients", "retry", "after", "wait", "failed"}
        /\ UNCHANGED <<looping, joinable, retry, stopping, mgr, early>>
    BY <1>2 DEF StartServiceThread, StartClients, AfterStart
  <2>2. EndedInOrder'
    BY <2>1, <1>i, StageFrame
  <2>3. MadeInOrder' /\ ManagerOutlivesLoops'
    BY <2>1, <1>i DEF MadeInOrder, ManagerOutlivesLoops, Working
  <2> QED BY <2>2, <2>3
<1>3. CASE StartReconnect
  <2>1. /\ app = "retry" /\ stopping = <<>> /\ app' = "after"
        /\ UNCHANGED <<looping, joinable, stopping, mgr, early>>
    BY <1>3 DEF StartReconnect
  <2>2. EndedInOrder'
    BY <2>1, <1>i, StageFrame
  <2>3. MadeInOrder' /\ ManagerOutlivesLoops'
    BY <2>1, <1>i DEF MadeInOrder, ManagerOutlivesLoops, Working
  <2> QED BY <2>2, <2>3
<1>4. ASSUME NEW l \in Loops, StartThread(l) PROVE Goal
  <2>1. /\ app = l /\ stopping = <<>> /\ app' = (IF l = "acceptor" THEN "io" ELSE "services")
        /\ looping' = [looping EXCEPT ![l] = "starting"]
        /\ joinable' = [joinable EXCEPT ![l] = "made"]
        /\ UNCHANGED <<stopping, mgr, retry, early>> /\ mgr = "live"
    BY <1>4, <1>i DEF StartThread, MadeInOrder, Working, Loops
  <2>2. /\ looping'[l] = "starting" /\ joinable'[l] = "made"
        /\ \A k \in Loops : k # l => looping'[k] = looping[k] /\ joinable'[k] = joinable[k]
    BY <2>1, <1>i DEF StartTypes
  <2>3. EndedInOrder'
    BY <2>1, NoStop
  <2>4. MadeInOrder'
    BY <2>1, <2>2, <1>i DEF MadeInOrder, Working, Loops
  <2>5. ManagerOutlivesLoops'
    BY <2>1 DEF ManagerOutlivesLoops
  <2> QED BY <2>3, <2>4, <2>5
<1>5. CASE WaitForService
  <2>1. app' = "stop" /\ app = "wait" /\ stopping' = <<"flag">>
        /\ UNCHANGED <<looping, joinable, retry, mgr, early>>
    BY <1>5 DEF WaitForService
  <2>2. EndedInOrder'
    <3>1. DOMAIN stopping' = {1} /\ stopping'[1] = "flag"
      BY <2>1
    <3> QED BY <3>1 DEF EndedInOrder
  <2>3. MadeInOrder' /\ ManagerOutlivesLoops'
    BY <2>1, <1>i DEF MadeInOrder, ManagerOutlivesLoops, Working
  <2> QED BY <2>2, <2>3
<1>6. CASE Signal
  <2>1. app \in {"wait", "stop"} /\ stopping' = Append(stopping, "flag")
        /\ UNCHANGED <<app, looping, joinable, retry, mgr>>
    BY <1>6, <1>e DEF Signal
  <2>2. /\ DOMAIN stopping' = 1 .. (Len(stopping) + 1) /\ stopping'[Len(stopping) + 1] = "flag"
        /\ DOMAIN stopping = 1 .. Len(stopping) /\ \A i \in DOMAIN stopping : stopping'[i] = stopping[i]
        /\ Len(stopping) \in Nat
    BY <2>1, <1>i DEF StartTypes
  <2>3. EndedInOrder'
    <3> SUFFICES ASSUME NEW i \in DOMAIN stopping'
                 PROVE  \/ stopping'[i] = "flag"
                        \/ i \in DOMAIN stopping /\ stopping'[i] = stopping[i]
      BY <2>1, <1>i DEF EndedInOrder
    <3> QED BY <2>2
  <2>4. MadeInOrder' /\ ManagerOutlivesLoops'
    BY <2>1, <1>i, <1>e DEF MadeInOrder, ManagerOutlivesLoops, Working
  <2> QED BY <2>3, <2>4
<1>7. CASE StopReconnect
  <2>1. At("flag") /\ Then("routers") /\ retry' = [retry EXCEPT !.run = FALSE]
        /\ UNCHANGED <<app, mgr, looping, joinable, early>>
    BY <1>7 DEF StopReconnect
  <2>2. retry'.thread = retry.thread
    BY <2>1, <1>i DEF StartTypes, Threads
  <2>3. EndedInOrder' /\ stopping # <<>>
    BY <2>1, <2>2, <1>i, StageStep DEF Stages
  <2>4. MadeInOrder' /\ ManagerOutlivesLoops'
    BY <2>1, <2>2, <2>3, <1>i DEF MadeInOrder, ManagerOutlivesLoops, Working
  <2> QED BY <2>3, <2>4
<1>8. CASE StopClients
  <2>1. At("routers") /\ Then("acceptor") /\ retry' = [retry EXCEPT !.thread = "none"]
        /\ UNCHANGED <<app, mgr, looping, joinable, early>>
    BY <1>8 DEF StopClients
  <2>2. retry'.thread = "none"
    BY <2>1, <1>i DEF StartTypes, Threads
  <2>3. EndedInOrder' /\ stopping # <<>>
    BY <2>1, <2>2, <1>i, StageStep DEF Stages
  <2>4. MadeInOrder' /\ ManagerOutlivesLoops'
    BY <2>1, <2>2, <2>3, <1>i DEF MadeInOrder, ManagerOutlivesLoops, Working
  <2> QED BY <2>3, <2>4
<1>9. ASSUME NEW l \in Loops, StopLoop(l) PROVE Goal
  <2>1. At(l) /\ UNCHANGED <<app, mgr, looping, joinable, retry, early>>
    BY <1>9 DEF StopLoop
  <2>2. /\ retry.thread # "running" /\ (l = "io" => looping["acceptor"] = "ended")
        /\ stopping # <<>> /\ joinable[l] # "null"
    BY <2>1, <1>i, AtStage DEF Loops, MadeInOrder
  <2>3. CASE UNCHANGED stopping
    <3>1. EndedInOrder'
      BY <2>1, <2>3, <1>i, StageFrame
    <3>2. MadeInOrder' /\ ManagerOutlivesLoops'
      BY <2>1, <2>3, <1>i DEF MadeInOrder, ManagerOutlivesLoops
    <3> QED BY <3>1, <3>2
  <2>4. CASE joinable[l] # "deleted" /\ Then(IF joinable[l] = "made" THEN Joining(l) ELSE AfterStopping(l))
    <3>1. joinable[l] = "made" /\ Then(Joining(l))
      BY <2>2, <2>4, <1>i DEF StartTypes
    <3>2. Joining(l) \in Stages /\ Joining(l) \in {"join acceptor", "join io"}
          /\ (Joining(l) = "join io" => l = "io")
      BY DEF Joining, Stages, Loops
    <3>3. EndedInOrder' /\ stopping' # <<>>
      BY <2>1, <2>2, <3>1, <3>2, <1>i, StageStep
    <3>4. MadeInOrder' /\ ManagerOutlivesLoops'
      BY <2>1, <2>2, <3>3, <1>i DEF MadeInOrder, ManagerOutlivesLoops
    <3> QED BY <3>3, <3>4
  <2> QED BY <1>9, <2>3, <2>4 DEF StopLoop
<1>10. ASSUME NEW l \in Loops, JoinLoop(l) PROVE Goal
  <2>1. At(Joining(l)) /\ looping[l] = "ended" /\ joinable' = [joinable EXCEPT ![l] = "deleted"]
        /\ Then(AfterStopping(l)) /\ UNCHANGED <<app, mgr, looping, retry, early>>
    BY <1>10 DEF JoinLoop
  <2>2. /\ retry.thread # "running" /\ (l = "io" => looping["acceptor"] = "ended") /\ stopping # <<>>
    BY <2>1, <1>i, AtStage
  <2>3. /\ AfterStopping(l) \in Stages /\ AfterStopping(l) \in {"io", "service"}
        /\ (l = "acceptor" <=> AfterStopping(l) = "io")
    BY DEF AfterStopping, Stages, Loops
  <2>4. EndedInOrder' /\ stopping' # <<>>
    BY <2>1, <2>2, <2>3, <1>i, StageStep DEF Loops
  <2>5. joinable'[l] = "deleted" /\ \A k \in Loops : k # l => joinable'[k] = joinable[k]
    BY <2>1, <1>i DEF StartTypes
  <2>6. MadeInOrder' /\ ManagerOutlivesLoops'
    BY <2>1, <2>2, <2>4, <2>5, <1>i DEF MadeInOrder, ManagerOutlivesLoops, Loops
  <2> QED BY <2>4, <2>6
<1>11. CASE StopService
  <2>1. At("service") /\ Then("free") /\ UNCHANGED <<app, mgr, looping, joinable, retry, early>>
    BY <1>11 DEF StopService
  <2>2. retry.thread # "running" /\ looping["acceptor"] = "ended" /\ looping["io"] = "ended"
        /\ stopping # <<>>
    BY <2>1, <1>i, AtStage DEF Loops
  <2>3. EndedInOrder' /\ stopping' # <<>>
    BY <2>1, <2>2, <1>i, StageStep DEF Stages
  <2>4. MadeInOrder' /\ ManagerOutlivesLoops'
    BY <2>1, <2>2, <2>3, <1>i DEF MadeInOrder, ManagerOutlivesLoops
  <2> QED BY <2>3, <2>4
<1>12. CASE Free
  <2>1. At("free") /\ stopping' = SubSeq(stopping, 1, Len(stopping) - 1) /\ mgr' = "freed"
        /\ UNCHANGED <<app, looping, joinable, retry, early>>
    BY <1>12 DEF Free
  <2>2. retry.thread # "running" /\ looping["acceptor"] = "ended" /\ looping["io"] = "ended"
        /\ stopping # <<>>
    BY <2>1, <1>i, AtStage DEF Loops
  <2>3. \A i \in DOMAIN stopping' : i \in DOMAIN stopping /\ stopping'[i] = stopping[i]
    BY <2>1, <2>2, <1>i DEF StartTypes
  <2>4. EndedInOrder'
    BY <2>1, <2>3, <1>i DEF EndedInOrder
  <2>5. MadeInOrder'
    BY <2>1, <2>2, <1>i DEF MadeInOrder, Working
  <2>6. ManagerOutlivesLoops'
    BY <2>1, <2>2 DEF ManagerOutlivesLoops, Loops
  <2> QED BY <2>4, <2>5, <2>6
<1>13. ASSUME NEW l \in Loops, LoopBegins(l) \/ LoopEnds(l) PROVE Goal
  <2>1. /\ looping[l] \in {"starting", "running"} /\ UNCHANGED <<app, stopping, mgr, joinable, retry, early>>
        /\ \E state \in {"running", "ended"} : looping' = [looping EXCEPT ![l] = state]
    BY <1>13 DEF LoopBegins, LoopEnds
  <2>2. /\ looping'[l] \in {"running", "ended"} /\ \A k \in Loops : k # l => looping'[k] = looping[k]
    BY <2>1, <1>i DEF StartTypes
  <2>3. EndedInOrder'
    BY <2>1, <2>2, <1>i, StageFrame
  <2>4. MadeInOrder'
    BY <2>1, <2>2, <1>i DEF MadeInOrder
  <2>5. mgr # "freed"
    BY <2>1, <1>i, <1>e DEF ManagerOutlivesLoops
  <2>6. ManagerOutlivesLoops'
    BY <2>1, <2>5 DEF ManagerOutlivesLoops
  <2> QED BY <2>3, <2>4, <2>6
<1>14. CASE Request \/ (\E s \in DOMAIN services : Serve(s))
  <2>1. UNCHANGED <<app, stopping, mgr, looping, joinable, retry, early>>
    BY <1>14 DEF Request, Serve
  <2>2. EndedInOrder'
    BY <2>1, <1>i, StageFrame
  <2>3. MadeInOrder' /\ ManagerOutlivesLoops'
    BY <2>1, <1>i DEF MadeInOrder, ManagerOutlivesLoops
  <2> QED BY <2>2, <2>3
<1>15. CASE Reconnect
  <2>1. UNCHANGED <<app, stopping, mgr, looping, joinable, early>>
        /\ (retry' = retry \/ retry' = [retry EXCEPT !.thread = "ended"]) /\ retry.thread = "running"
    BY <1>15 DEF Reconnect
  <2>2. retry' = retry \/ retry'.thread = "ended"
    BY <2>1, <1>i DEF StartTypes, Threads
  <2>3. EndedInOrder'
    BY <2>1, <2>2, <1>i, StageFrame
  <2>4. MadeInOrder' /\ ManagerOutlivesLoops'
    BY <2>1, <2>2, <1>i, <1>e DEF MadeInOrder, ManagerOutlivesLoops
  <2> QED BY <2>3, <2>4
<1> QED
  BY <1>1, <1>2, <1>3, <1>4, <1>5, <1>6, <1>7, <1>8, <1>9, <1>10, <1>11, <1>12, <1>13, <1>14, <1>15
     DEF LifecycleNext, MainStep

LEMMA StartInvStep == StartInv /\ [LifecycleNext]_lifecycleVars => StartInv'
<1>1. ASSUME StartInv, LifecycleNext PROVE StartInv'
  BY <1>1, TypesKept, QuietKept, OrderKept DEF StartInv
<1>2. ASSUME StartInv, UNCHANGED lifecycleVars PROVE StartInv'
  BY <1>2 DEF StartInv, lifecycleVars, loopThreadVars, serviceVars, StartTypes, NothingStops,
        OnlyRequestIsEarly, MadeInOrder, EndedInOrder, ManagerOutlivesLoops
<1> QED BY <1>1, <1>2

(* With any number of service threads and of signals, at any point of the  *)
(* start and of one another: ServiceManager::Stop deletes the network      *)
(* manager only when no loop and no reconnect thread is left to use it, if *)
(* AppStart had returned before the first signal; and without a signal     *)
(* nothing but a request is made use of too early.                         *)
THEOREM LifecycleCorrect == LifecycleSpec => []LifecycleInv
<1>1. StartInv => LifecycleInv
  <2> SUFFICES ASSUME StartInv PROVE LifecycleInv
    OBVIOUS
  <2>1. early \/ ManagerOutlivesLoops
    BY DEF StartInv
  <2> QED BY <2>1 DEF LifecycleInv, StartInv, ManagerOutlivesLoops
<1> QED BY <1>1, StartInit, StartInvStep, PTL DEF LifecycleSpec
=============================================================================
