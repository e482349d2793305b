---------------------------- MODULE FilesProofs ----------------------------
(***************************************************************************)
(* Proofs about Files for every table size, every set of devices and every *)
(* set of file systems.                                                    *)
(*                                                                         *)
(* Two facts carry the others.  Kept: the standard streams always have a   *)
(* device, so the pool never hands them out and never takes them back.     *)
(* Marked: the high water mark is at or above every descriptor that could  *)
(* hold a lock, although releases do not lower it and io_redirect fills    *)
(* descriptors that it did not take from the pool.                         *)
(***************************************************************************)
EXTENDS Files, TLAPS

\* The standard streams are never free.
Kept == \A f \in Std : alt_fd_list[f].dev # NULL

\* A lock is on a device's descriptor, and the search for locks looks there.
Marked ==
    \A f \in Fds : /\ EXCL \in alt_fd_list[f].flags => DEV \in alt_fd_list[f].flags
                   /\ DEV \in alt_fd_list[f].flags => f <= alt_max_fd

IInv == FilesTypeOK /\ Kept /\ Marked /\ NoLeak /\ FlagsHonest /\ StdioWorks

Entry == [dev : Devices \cup FileSystems \cup {NULL}, acc : Access, flags : SUBSET Flags]

-----------------------------------------------------------------------------

LEMMA FlagNames == EXCL # DEV /\ EXCL \in Flags /\ DEV \in Flags /\ EXCL # "O_NONBLOCK" /\ DEV # "O_NONBLOCK"
  BY DEF EXCL, DEV, Flags

LEMMA FdNumbers == Std \subseteq Fds /\ Fds \subseteq Int /\ \A f \in Fds \ Std : f \in 3..(MaxFd - 1)
  BY FilesAssumption DEF Std, Fds

\* What the pool hands out is beyond the standard streams, and nobody's.
LEMMA FirstFree ==
  ASSUME IInv, NEW f \in Fds, IsFirstFree(f)
  PROVE  f \in Fds \ Std /\ f \notin held /\ alt_fd_list[f].dev = NULL
  BY DEF IInv, Kept, NoLeak, IsFirstFree, Unused

\* The mark moves up to the descriptor, or is there already.
LEMMA MarkRaised ==
  ASSUME FilesTypeOK, NEW f \in Fds \ Std, RaiseMax(f)
  PROVE  /\ alt_max_fd' \in {-1} \cup (3..(MaxFd - 1))
         /\ alt_max_fd <= alt_max_fd' /\ f <= alt_max_fd'
  BY FdNumbers, FilesAssumption DEF FilesTypeOK, RaiseMax

LEMMA OpenedFlags ==
  ASSUME NEW d, NEW want \in SUBSET Flags
  PROVE  /\ OpenFlags(d, want) \in SUBSET Flags
         /\ EXCL \notin OpenFlags(d, want)
         /\ DEV \in OpenFlags(d, want) <=> d \in Devices
  BY FlagNames DEF OpenFlags, ALT_FD_FLAGS_MASK

-----------------------------------------------------------------------------

LEMMA InitInv == Init => IInv
<1> SUFFICES ASSUME Init PROVE IInv
  OBVIOUS
<1>1. /\ \A f \in Std : alt_fd_list[f] = Blank(DevNull)
      /\ \A f \in Fds \ Std : alt_fd_list[f] = Free
  BY FdNumbers DEF Init
<1>2. Free \in Entry /\ Blank(DevNull) \in Entry
  BY FilesAssumption DEF Free, Blank, Entry, Access
<1>3. FilesTypeOK
  BY <1>2, FilesAssumption DEF Init, FilesTypeOK, Entry
<1>4. Kept /\ Marked
  BY <1>1, FilesAssumption DEF Kept, Marked, Free, Blank
<1>5. NoLeak /\ FlagsHonest /\ StdioWorks
  BY <1>1, FdNumbers DEF Init, NoLeak, FlagsHonest, StdioWorks, Free, Blank
<1> QED
  BY <1>3, <1>4, <1>5 DEF IInv

\* Calls that change the flags of one descriptor only.
LEMMA FlagStep ==
  ASSUME IInv, NEW f \in Fds, NEW S \in SUBSET Flags,
         EXCL \in S => DEV \in S, DEV \in S <=> DEV \in alt_fd_list[f].flags,
         alt_fd_list' = [alt_fd_list EXCEPT ![f] = WithFlags(@, S)],
         UNCHANGED <<registered, booted, alt_max_fd, held>>
  PROVE  IInv'
<1> USE DEF IInv
<1>1. /\ alt_fd_list'[f] = WithFlags(alt_fd_list[f], S)
      /\ \A g \in Fds \ {f} : alt_fd_list'[g] = alt_fd_list[g]
  BY DEF FilesTypeOK
<1>2. \A g \in Fds : /\ alt_fd_list'[g].dev = alt_fd_list[g].dev
                     /\ alt_fd_list'[g].acc = alt_fd_list[g].acc
                     /\ DEV \in alt_fd_list'[g].flags <=> DEV \in alt_fd_list[g].flags
  BY <1>1 DEF WithFlags
<1>3. FilesTypeOK'
  <2>1. WithFlags(alt_fd_list[f], S) \in Entry
    BY DEF WithFlags, Entry, FilesTypeOK
  <2> QED
    BY <2>1 DEF FilesTypeOK, Entry
<1>4. Kept' /\ NoLeak'
  BY <1>2, FdNumbers DEF Kept, NoLeak
<1>5. Marked'
  BY <1>1, <1>2 DEF Marked, WithFlags
<1>6. FlagsHonest'
  BY <1>1, <1>2 DEF FlagsHonest, Marked, WithFlags, FilesTypeOK
<1>7. StdioWorks'
  BY <1>2, FdNumbers DEF StdioWorks, MayRead, MayWrite, Std
<1> QED
  BY <1>3, <1>4, <1>5, <1>6, <1>7

\* A descriptor beyond the standard streams goes back to the pool; the mark
\* may have been raised before.
LEMMA ReleaseStep ==
  ASSUME IInv, NEW f \in Fds \ Std,
         alt_fd_list' = [alt_fd_list EXCEPT ![f] = Released(f)],
         held' = held \ {f},
         alt_max_fd' \in {-1} \cup (3..(MaxFd - 1)), alt_max_fd <= alt_max_fd',
         UNCHANGED <<registered, booted>>
  PROVE  IInv'
<1> USE DEF IInv
<1>0. Released(f) = Free /\ Free \in Entry /\ Free.dev = NULL /\ Free.flags = {}
  BY FdNumbers, FilesAssumption DEF Released, Free, Blank, Entry, Access
<1>1. /\ alt_fd_list'[f] = Free
      /\ \A g \in Fds \ {f} : alt_fd_list'[g] = alt_fd_list[g]
  BY <1>0 DEF FilesTypeOK
<1>3. FilesTypeOK'
  BY <1>0 DEF FilesTypeOK, Entry
<1>4. Kept' /\ NoLeak'
  BY <1>0, <1>1, FdNumbers DEF Kept, NoLeak
<1>5. Marked'
  <2> SUFFICES ASSUME NEW g \in Fds
               PROVE  /\ EXCL \in alt_fd_list'[g].flags => DEV \in alt_fd_list'[g].flags
                      /\ DEV \in alt_fd_list'[g].flags => g <= alt_max_fd'
    BY DEF Marked
  <2>1. g \in Int /\ alt_max_fd \in Int /\ alt_max_fd' \in Int
    BY FdNumbers, FilesAssumption DEF FilesTypeOK
  <2>2. CASE g = f
    BY <2>2, <1>0, <1>1
  <2>3. CASE g # f
    BY <2>1, <2>3, <1>1 DEF Marked
  <2> QED
    BY <2>2, <2>3
<1>6. FlagsHonest'
  BY <1>1 DEF FlagsHonest, FilesTypeOK
<1>7. StdioWorks'
  BY <1>1, FdNumbers DEF StdioWorks, MayRead, MayWrite, Std
<1> QED
  BY <1>3, <1>4, <1>5, <1>6, <1>7

LEMMA OpensStep ==
  ASSUME IInv, NEW f \in Fds, IsFirstFree(f), RaiseMax(f),
         NEW d \in Devices \cup FileSystems, NEW acc \in Access, NEW want \in SUBSET Flags,
         Opens(f, d, acc, want), UNCHANGED <<registered, booted>>
  PROVE  IInv'
<1> DEFINE e == [dev |-> d, acc |-> acc, flags |-> OpenFlags(d, want)]
<1> USE DEF IInv
<1>0. f \in Fds \ Std
  BY FirstFree
<1>1. /\ alt_fd_list' = [alt_fd_list EXCEPT ![f] = e]
      /\ alt_fd_list'[f] = e
      /\ \A g \in Fds \ {f} : alt_fd_list'[g] = alt_fd_list[g]
  BY DEF FilesTypeOK, Opens
<1>2. /\ alt_max_fd' \in {-1} \cup (3..(MaxFd - 1))
      /\ alt_max_fd <= alt_max_fd' /\ f <= alt_max_fd'
  BY <1>0, MarkRaised
<1>3. FilesTypeOK'
  <2>1. e \in Entry
    BY OpenedFlags DEF Entry
  <2> QED
    BY <2>1, <1>0, <1>1, <1>2 DEF FilesTypeOK, Entry, Opens
<1>4. Kept' /\ NoLeak'
  BY <1>0, <1>1, FdNumbers, FilesAssumption DEF Kept, NoLeak, Opens
<1>5. Marked'
  <2> SUFFICES ASSUME NEW g \in Fds
               PROVE  /\ EXCL \in alt_fd_list'[g].flags => DEV \in alt_fd_list'[g].flags
                      /\ DEV \in alt_fd_list'[g].flags => g <= alt_max_fd'
    BY DEF Marked
  <2>1. g \in Int /\ alt_max_fd \in Int /\ alt_max_fd' \in Int
    BY <1>2, FdNumbers, FilesAssumption DEF FilesTypeOK
  <2>2. CASE g = f
    BY <2>2, <1>1, <1>2, OpenedFlags
  <2>3. CASE g # f
    BY <2>1, <2>3, <1>1, <1>2 DEF Marked
  <2> QED
    BY <2>2, <2>3
<1>6. FlagsHonest'
  BY <1>1, OpenedFlags DEF FlagsHonest, FilesTypeOK, Opens
<1>7. StdioWorks'
  BY <1>0, <1>1, FdNumbers DEF StdioWorks, MayRead, MayWrite, Std
<1> QED
  BY <1>3, <1>4, <1>5, <1>6, <1>7

LEMMA RedirectStep == IInv /\ IoRedirect => IInv'
<1> SUFFICES ASSUME IInv, IoRedirect PROVE IInv'
  OBVIOUS
<1> USE DEF IInv
<1>1. CASE Console \notin registered
  <2>1. UNCHANGED <<registered, alt_fd_list, alt_max_fd, held>> /\ booted' = TRUE
    BY <1>1 DEF IoRedirect
  <2>2. FilesTypeOK' /\ Kept' /\ Marked' /\ NoLeak' /\ FlagsHonest'
    BY <2>1 DEF FilesTypeOK, Kept, Marked, NoLeak, FlagsHonest
  <2>3. StdioWorks'
    BY <1>1, <2>1 DEF StdioWorks
  <2> QED
    BY <2>2, <2>3
<1>2. CASE Console \in registered
  <2> DEFINE Stream(s) == [dev |-> Console, acc |-> IF s = 0 THEN "O_RDONLY" ELSE "O_WRONLY",
                           flags |-> OpenFlags(Console, {})]
  <2>1. PICK f \in Fds : /\ IsFirstFree(f) /\ RaiseMax(f)
                         /\ alt_fd_list' = [s \in Fds |-> IF s \in Std THEN Stream(s) ELSE alt_fd_list[s]]
    BY <1>2 DEF IoRedirect
  <2>2. /\ f \in 3..(MaxFd - 1) /\ alt_max_fd' \in 3..(MaxFd - 1)
        /\ alt_max_fd <= alt_max_fd'
    <3>1. f \in Fds \ Std
      BY <2>1, FirstFree
    <3>2. alt_max_fd' \in {-1} \cup (3..(MaxFd - 1)) /\ alt_max_fd <= alt_max_fd' /\ f <= alt_max_fd'
      BY <2>1, <3>1, MarkRaised
    <3> QED
      BY <3>1, <3>2, FdNumbers, FilesAssumption
  <2>3. UNCHANGED <<registered, held>> /\ booted' = TRUE
    BY DEF IoRedirect
  <2>4. /\ \A s \in Std : alt_fd_list'[s] = Stream(s)
        /\ \A s \in Fds \ Std : alt_fd_list'[s] = alt_fd_list[s]
    BY <2>1, FdNumbers
  <2>5. FilesTypeOK'
    <3>1. \A s \in Std : Stream(s) \in Entry
      BY OpenedFlags, FilesAssumption DEF Entry, Access
    <3> QED
      BY <3>1, <2>1, <2>2, <2>3 DEF FilesTypeOK, Entry
  <2>6. \A s \in Std : /\ alt_fd_list'[s].dev = Console
                      /\ EXCL \notin alt_fd_list'[s].flags /\ DEV \in alt_fd_list'[s].flags
    <3>1. EXCL \notin OpenFlags(Console, {}) /\ DEV \in OpenFlags(Console, {})
      BY OpenedFlags, FilesAssumption
    <3>2. \A s \in Std : Stream(s).dev = Console /\ Stream(s).flags = OpenFlags(Console, {})
      OBVIOUS
    <3> HIDE DEF Stream
    <3> QED
      BY <2>4, <3>1, <3>2
  <2>7. Kept' /\ NoLeak' /\ FlagsHonest'
    BY <2>3, <2>4, <2>6, FdNumbers, FilesAssumption DEF Kept, NoLeak, FlagsHonest, FilesTypeOK
  <2>8. Marked'
    <3> SUFFICES ASSUME NEW g \in Fds
                 PROVE  /\ EXCL \in alt_fd_list'[g].flags => DEV \in alt_fd_list'[g].flags
                        /\ DEV \in alt_fd_list'[g].flags => g <= alt_max_fd'
      BY DEF Marked
    <3>1. g \in Int /\ alt_max_fd \in Int /\ alt_max_fd' \in Int
      BY <2>2, FdNumbers, FilesAssumption DEF FilesTypeOK
    <3>2. CASE g \in Std
      <4>1. EXCL \notin alt_fd_list'[g].flags
        BY <3>2, <2>6
      <4> QED
        BY <4>1, <3>1, <3>2, <2>2 DEF Std
    <3>3. CASE g \notin Std
      BY <3>1, <3>3, <2>2, <2>4 DEF Marked
    <3> QED
      BY <3>2, <3>3
  <2>9. StdioWorks'
    BY <2>4 DEF StdioWorks, MayRead, MayWrite, Std
  <2> QED
    BY <2>5, <2>7, <2>8, <2>9
<1> QED
  BY <1>1, <1>2

LEMMA OpenStep ==
  ASSUME IInv, NEW d \in Devices \cup FileSystems, NEW acc \in Access, NEW want \in SUBSET Flags,
         Open(d, acc, want)
  PROVE  IInv'
<1>1. PICK f \in Fds : /\ IsFirstFree(f) /\ RaiseMax(f)
                       /\ Opens(f, d, acc, want) \/ (Refused(f, d) /\ UNCHANGED held)
  BY DEF Open
<1>2. UNCHANGED <<registered, booted>>
  BY DEF Open
<1>3. f \in Fds \ Std /\ f \notin held
  BY <1>1, FirstFree
<1>4. CASE Opens(f, d, acc, want)
  BY <1>1, <1>2, <1>4, OpensStep
<1>5. CASE Refused(f, d) /\ UNCHANGED held
  <2>1. alt_max_fd' \in {-1} \cup (3..(MaxFd - 1)) /\ alt_max_fd <= alt_max_fd'
    BY <1>1, <1>3, MarkRaised DEF IInv
  <2>2. held' = held \ {f} /\ alt_fd_list' = [alt_fd_list EXCEPT ![f] = Released(f)]
    BY <1>3, <1>5 DEF Refused
  <2> QED
    BY <1>2, <1>3, <2>1, <2>2, ReleaseStep
<1> QED
  BY <1>1, <1>4, <1>5

LEMMA CloseStep ==
  ASSUME IInv, NEW f \in Fds, Close(f)
  PROVE  IInv'
<1>1. CASE f \in Std
  <2>1. UNCHANGED vars
    BY <1>1 DEF Close, Released, Std, IInv, FilesTypeOK, vars
  <2> QED
    BY <2>1 DEF vars, IInv, FilesTypeOK, Kept, Marked, NoLeak, FlagsHonest, StdioWorks, MayRead, MayWrite
<1>2. CASE f \notin Std
  <2>1. alt_max_fd' \in {-1} \cup (3..(MaxFd - 1)) /\ alt_max_fd <= alt_max_fd'
    BY FilesAssumption DEF Close, IInv, FilesTypeOK
  <2> QED
    BY <1>2, <2>1, ReleaseStep DEF Close
<1> QED
  BY <1>1, <1>2

LEMMA LockSteps ==
  ASSUME IInv, NEW f \in Fds, Lock(f) \/ Unlock(f)
  PROVE  IInv'
<1>1. alt_fd_list[f].flags \in SUBSET Flags
  BY DEF IInv, FilesTypeOK
<1>2. CASE Lock(f)
  <2> DEFINE S == alt_fd_list[f].flags \cup {EXCL}
  <2>1. S \in SUBSET Flags /\ DEV \in S /\ DEV \in alt_fd_list[f].flags
    BY <1>1, <1>2, FlagNames DEF Lock
  <2>2. alt_fd_list' = [alt_fd_list EXCEPT ![f] = WithFlags(@, S)]
    BY <1>2 DEF Lock
  <2> QED
    BY <1>2, <2>1, <2>2, FlagStep DEF Lock
<1>3. CASE Unlock(f)
  <2> DEFINE S == alt_fd_list[f].flags \ {EXCL}
  <2>1. S \in SUBSET Flags /\ DEV \in S /\ DEV \in alt_fd_list[f].flags
    BY <1>1, <1>3, FlagNames DEF Unlock
  <2>2. alt_fd_list' = [alt_fd_list EXCEPT ![f] = WithFlags(@, S)]
    BY <1>3 DEF Unlock
  <2> QED
    BY <1>3, <2>1, <2>2, FlagStep DEF Unlock
<1> QED
  BY <1>2, <1>3

LEMMA FcntlStep ==
  ASSUME IInv, NEW f \in Fds, NEW want \in SUBSET Flags, Fcntl(f, want)
  PROVE  IInv'
<1> DEFINE S == (alt_fd_list[f].flags \ ALT_FCNTL_FLAGS_MASK) \cup (want \cap ALT_FCNTL_FLAGS_MASK)
<1>1. /\ S \in SUBSET Flags
      /\ EXCL \in S <=> EXCL \in alt_fd_list[f].flags
      /\ DEV \in S <=> DEV \in alt_fd_list[f].flags
  BY FlagNames DEF IInv, FilesTypeOK, ALT_FCNTL_FLAGS_MASK
<1>2. EXCL \in S => DEV \in S
  BY <1>1 DEF IInv, Marked
<1>3. alt_fd_list' = [alt_fd_list EXCEPT ![f] = WithFlags(@, S)]
  BY DEF Fcntl
<1> QED
  BY <1>1, <1>2, <1>3, FlagStep DEF Fcntl

LEMMA NextInv == IInv /\ [Next]_vars => IInv'
<1> SUFFICES ASSUME IInv, [Next]_vars PROVE IInv'
  OBVIOUS
<1>1. ASSUME NEW d \in Devices \cup FileSystems, Register(d)
      PROVE  IInv'
  BY <1>1 DEF IInv, Register, FilesTypeOK, Kept, Marked, NoLeak, FlagsHonest, StdioWorks
<1>2. CASE IoRedirect
  BY <1>2, RedirectStep
<1>3. ASSUME NEW d \in Devices \cup FileSystems, NEW acc \in Access, NEW want \in SUBSET Flags,
             Open(d, acc, want)
      PROVE  IInv'
  BY <1>3, OpenStep
<1>4. ASSUME NEW f \in Fds, Close(f) \/ Lock(f) \/ Unlock(f)
      PROVE  IInv'
  BY <1>4, CloseStep, LockSteps
<1>5. ASSUME NEW f \in Fds, NEW want \in SUBSET Flags, Fcntl(f, want)
      PROVE  IInv'
  BY <1>5, FcntlStep
<1>6. CASE UNCHANGED vars
  BY <1>6 DEF vars, IInv, FilesTypeOK, Kept, Marked, NoLeak, FlagsHonest, StdioWorks, MayRead, MayWrite
<1> QED
  BY <1>1, <1>2, <1>3, <1>4, <1>5, <1>6 DEF Next

-----------------------------------------------------------------------------

LEMMA Invariance == Spec => []IInv
  BY InitInv, NextInv, PTL DEF Spec

\* The table, its mark and the descriptors the program holds stay in range.
THEOREM TypeCorrect == Spec => []FilesTypeOK
<1>1. IInv => FilesTypeOK
  BY DEF IInv
<1> QED
  BY <1>1, Invariance, PTL

\* open() and close() neither lose a descriptor nor hand one out twice.
THEOREM DescriptorsAreNotLost == Spec => []NoLeak
<1>1. IInv => NoLeak
  BY DEF IInv
<1> QED
  BY <1>1, Invariance, PTL

\* No call of the program forges the private flags.
THEOREM FlagsStayHonest == Spec => []FlagsHonest
<1>1. IInv => FlagsHonest
  BY DEF IInv
<1> QED
  BY <1>1, Invariance, PTL

\* The standard streams outlive the descriptor they were copied from and every
\* close() of the program.
THEOREM StreamsSurvive == Spec => []StdioWorks
<1>1. IInv => StdioWorks
  BY DEF IInv
<1> QED
  BY <1>1, Invariance, PTL

\* Whoever has locked a device stays the last to obtain it: the search for the
\* lock goes far enough.
THEOREM LocksAreRespected == Spec => LockRespected
<1>1. IInv /\ [Next]_vars =>
        [\A f \in Fds : (alt_fd_list[f].dev = NULL /\ alt_fd_list'[f].dev \in Devices) =>
          \A g \in Fds \ {f} : alt_fd_list[g].dev = alt_fd_list'[f].dev =>
                                  EXCL \notin alt_fd_list[g].flags]_vars
  <2> SUFFICES ASSUME IInv, Next,
                      NEW f \in Fds, alt_fd_list[f].dev = NULL, alt_fd_list'[f].dev \in Devices,
                      NEW g \in Fds \ {f}, alt_fd_list[g].dev = alt_fd_list'[f].dev,
                      EXCL \in alt_fd_list[g].flags
               PROVE  FALSE
    OBVIOUS
  <2>1. NULL \notin Devices /\ alt_fd_list \in [Fds -> Entry]
    BY FilesAssumption DEF IInv, FilesTypeOK, Entry
  <2>2. g \in 0..alt_max_fd
    BY FdNumbers DEF IInv, Marked, FilesTypeOK, Fds
  <2>3. ASSUME NEW d \in Devices \cup FileSystems, Register(d)
        PROVE  FALSE
    BY <2>1, <2>3 DEF Register
  <2>4. CASE IoRedirect
    <3>1. f \notin Std
      BY <2>1 DEF IInv, Kept
    <3> QED
      BY <2>1, <2>4, <3>1 DEF IoRedirect
  <2>5. ASSUME NEW d \in Devices \cup FileSystems, NEW acc \in Access, NEW want \in SUBSET Flags,
               Open(d, acc, want)
        PROVE  FALSE
    <3>1. PICK h \in Fds : IsFirstFree(h) /\ (Opens(h, d, acc, want) \/ Refused(h, d))
      BY <2>5 DEF Open
    <3>2. h \in Fds \ Std
      BY <3>1, FirstFree
    <3>3. CASE Refused(h, d)
      <4>1. alt_fd_list'[f] = Free \/ alt_fd_list'[f] = alt_fd_list[f]
        BY <2>1, <3>2, <3>3, FdNumbers DEF Refused, Released
      <4> QED
        BY <2>1, <4>1 DEF Free, Blank
    <3>4. CASE Opens(h, d, acc, want)
      <4>1. h = f /\ alt_fd_list'[f].dev = d
        BY <2>1, <3>4 DEF Opens
      <4> QED
        BY <2>2, <3>4, <4>1 DEF Opens, Locked
    <3> QED
      BY <3>1, <3>3, <3>4
  <2>6. ASSUME NEW h \in Fds, Close(h)
        PROVE  FALSE
    <3>1. alt_fd_list'[f] = Free \/ alt_fd_list'[f] = alt_fd_list[f]
      BY <2>1, <2>6 DEF Close, Released
    <3> QED
      BY <2>1, <3>1 DEF Free, Blank
  <2>7. ASSUME NEW h \in Fds, NEW want \in SUBSET Flags, Lock(h) \/ Unlock(h) \/ Fcntl(h, want)
        PROVE  FALSE
    <3>1. alt_fd_list'[f].dev = alt_fd_list[f].dev
      BY <2>1, <2>7 DEF Lock, Unlock, Fcntl, WithFlags
    <3> QED
      BY <2>1, <3>1
  <2> QED
    BY <2>3, <2>4, <2>5, <2>6, <2>7 DEF Next
<1> QED
  BY <1>1, Invariance, PTL DEF Spec, LockRespected
=============================================================================
