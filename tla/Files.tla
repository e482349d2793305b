-------------------------------- MODULE Files --------------------------------
(***************************************************************************)
(* The file descriptor table of the BSP (HAL/src/alt_open.c, alt_close.c,  *)
(* alt_get_fd.c, alt_release_fd.c, alt_fd_lock.c, alt_ioctl.c, alt_fcntl.c *)
(* and alt_io_redirect.c).  Start-up registers devices and file systems    *)
(* and redirects the three standard streams to the console; from then on   *)
(* the program's calls change the table.  The program runs on one thread,  *)
(* so a call is one step.  A device is known by its name and a file by the *)
(* file system it lies in; a descriptor the program does not hold is not   *)
(* passed to a call, as the calls do not check it.                         *)
(***************************************************************************)
EXTENDS Integers, FiniteSets

CONSTANTS
    MaxFd,        \* ALT_MAX_FD
    Devices,      \* character devices, /dev/null and the console among them
    FileSystems,
    DevNull,      \* alt_dev_null
    Console       \* ALT_STDIN, ALT_STDOUT and ALT_STDERR

NULL == 0         \* the device pointer of a free descriptor

ASSUME FilesAssumption ==
    /\ MaxFd \in Nat /\ MaxFd > 3
    /\ {DevNull, Console} \subseteq Devices /\ DevNull # Console
    /\ Devices \cap FileSystems = {}
    /\ NULL \notin Devices \cup FileSystems

VARIABLES
    registered,   \* alt_dev_list and alt_fs_list
    booted,       \* alt_io_redirect has run
    alt_fd_list, alt_max_fd,
    held          \* history: descriptors returned by open() and not closed

vars == <<registered, booted, alt_fd_list, alt_max_fd, held>>

Fds == 0..(MaxFd - 1)
Std == 0..2

\* fd_flags: the access mode is a field of its own; O_APPEND fares as O_NONBLOCK.
EXCL == "ALT_FD_EXCL"
DEV  == "ALT_FD_DEV"
Flags == {EXCL, DEV, "O_NONBLOCK"}
ALT_FD_FLAGS_MASK == {EXCL, DEV}
ALT_FCNTL_FLAGS_MASK == {"O_NONBLOCK"}

\* An entry as alt_dev.c or alt_release_fd leaves it, and one with other flags.
Blank(d) == [dev |-> d, acc |-> "O_RDONLY", flags |-> {}]
Free == Blank(NULL)
WithFlags(e, flags) == [dev |-> e.dev, acc |-> e.acc, flags |-> flags]

Init ==
    /\ registered = {DevNull} /\ booted = FALSE
    /\ alt_fd_list = [f \in Fds |-> IF f \in Std THEN Blank(DevNull) ELSE Free]
    /\ alt_max_fd = -1
    /\ held = {}

\* alt_dev_reg, alt_fs_reg: from alt_sys_init, before the redirection.
Register(d) ==
    /\ ~booted
    /\ registered' = registered \cup {d}
    /\ UNCHANGED <<booted, alt_fd_list, alt_max_fd, held>>

\* alt_get_fd: the first free descriptor, and the high water mark with it.
Unused == {f \in Fds : alt_fd_list[f].dev = NULL}
IsFirstFree(f) == f \in Unused /\ \A g \in Unused : f <= g

\* Mutant: the mark is not raised.
RaiseMax_Forgotten(f) == UNCHANGED alt_max_fd
RaiseMax(f) == alt_max_fd' = IF f > alt_max_fd THEN f ELSE alt_max_fd

\* alt_release_fd: the standard streams are never released.
Released_Std(f) == Free
Released(f) == IF f > 2 THEN Free ELSE alt_fd_list[f]

\* alt_file_locked: somebody else holds the device for exclusive access.
Locked(d, f) ==
    \E g \in 0..alt_max_fd :
        g # f /\ alt_fd_list[g].dev = d /\ EXCL \in alt_fd_list[g].flags

\* What open() puts into fd_flags.
OpenFlags_Unmasked(d, want) == want \cup (IF d \in Devices THEN {DEV} ELSE {})
OpenFlags(d, want) == (want \ ALT_FD_FLAGS_MASK) \cup (IF d \in Devices THEN {DEV} ELSE {})

\* alt_io_redirect: each stream is opened, copied and released in turn.
IoRedirect ==
    /\ ~booted /\ booted' = TRUE
    /\ IF Console \in registered
       THEN \E f \in Fds :
               /\ IsFirstFree(f) /\ RaiseMax(f)
               /\ alt_fd_list' = [s \in Fds |->
                     IF s \in Std
                     THEN [dev |-> Console, acc |-> IF s = 0 THEN "O_RDONLY" ELSE "O_WRONLY",
                           flags |-> OpenFlags(Console, {})]
                     ELSE alt_fd_list[s]]
       ELSE UNCHANGED <<alt_fd_list, alt_max_fd>>
    /\ UNCHANGED <<registered, held>>

\* A file system may refuse to open the file; no device of this BSP has open().
CallbackFails(d) == d \in FileSystems

\* open() in the pool's free descriptor f.
Opens(f, d, acc, want) ==
    /\ d \in Devices => ~Locked(d, f)
    /\ alt_fd_list' = [alt_fd_list EXCEPT ![f] =
                          [dev |-> d, acc |-> acc, flags |-> OpenFlags(d, want)]]
    /\ held' = held \cup {f}

\* The descriptor was taken, and is given back.
Refused_Kept(f, d) == alt_fd_list' = [alt_fd_list EXCEPT ![f].dev = d]
Refused(f, d) == alt_fd_list' = [alt_fd_list EXCEPT ![f] = Released(f)]

Open(d, acc, want) ==
    /\ booted /\ d \in registered
    /\ \E f \in Fds :
          /\ IsFirstFree(f) /\ RaiseMax(f)
          /\ \/ Opens(f, d, acc, want)
             \/ /\ (d \in Devices /\ Locked(d, f)) \/ CallbackFails(d)
                /\ Refused(f, d)
                /\ UNCHANGED held
    /\ UNCHANGED <<registered, booted>>

\* The descriptors the program may use: its own and the standard streams.
Usable == held \cup Std

\* close(): the result of the driver does not matter to the table.
Close(f) ==
    /\ booted /\ f \in Usable
    /\ alt_fd_list' = [alt_fd_list EXCEPT ![f] = Released(f)]
    /\ held' = held \ {f}
    /\ UNCHANGED <<registered, booted, alt_max_fd>>

\* alt_fd_lock looks for other descriptors of the device below the mark.
OthersSeen(f) == \E g \in 0..(alt_max_fd - 1) : g # f /\ alt_fd_list[g].dev = alt_fd_list[f].dev

\* ioctl(TIOCEXCL), ioctl(TIOCNXCL): only for devices.
Lock(f) ==
    /\ booted /\ f \in Usable /\ DEV \in alt_fd_list[f].flags
    /\ ~OthersSeen(f)
    /\ alt_fd_list' = [alt_fd_list EXCEPT ![f] = WithFlags(@, @.flags \cup {EXCL})]
    /\ UNCHANGED <<registered, booted, alt_max_fd, held>>

Unlock(f) ==
    /\ booted /\ f \in Usable /\ DEV \in alt_fd_list[f].flags
    /\ alt_fd_list' = [alt_fd_list EXCEPT ![f] = WithFlags(@, @.flags \ {EXCL})]
    /\ UNCHANGED <<registered, booted, alt_max_fd, held>>

\* fcntl(F_SETFL)
Fcntl(f, want) ==
    /\ booted /\ f \in Usable
    /\ alt_fd_list' = [alt_fd_list EXCEPT ![f] = WithFlags(@,
                          (@.flags \ ALT_FCNTL_FLAGS_MASK) \cup (want \cap ALT_FCNTL_FLAGS_MASK))]
    /\ UNCHANGED <<registered, booted, alt_max_fd, held>>

\* read() and write() are refused by the access mode of the descriptor.
MayRead(f)  == alt_fd_list[f].acc # "O_WRONLY"
MayWrite(f) == alt_fd_list[f].acc # "O_RDONLY"

Access == {"O_RDONLY", "O_WRONLY", "O_RDWR"}

Next ==
    \/ \E d \in Devices \cup FileSystems : Register(d)
    \/ IoRedirect
    \/ \E d \in Devices \cup FileSystems, acc \in Access, want \in SUBSET Flags : Open(d, acc, want)
    \/ \E f \in Fds : Close(f) \/ Lock(f) \/ Unlock(f)
    \/ \E f \in Fds, want \in SUBSET Flags : Fcntl(f, want)

Spec == Init /\ [][Next]_vars

-----------------------------------------------------------------------------

FilesTypeOK ==
    /\ registered \subseteq Devices \cup FileSystems /\ booted \in BOOLEAN
    /\ alt_fd_list \in [Fds -> [dev : Devices \cup FileSystems \cup {NULL},
                                acc : Access, flags : SUBSET Flags]]
    /\ alt_max_fd \in {-1} \cup (3..(MaxFd - 1))
    /\ held \subseteq Fds \ Std

\* A descriptor is taken exactly while the program holds it: an open() that
\* fails half way, locked or refused by the driver, gives its descriptor back.
NoLeak == \A f \in Fds \ Std : (alt_fd_list[f].dev # NULL) <=> f \in held

\* Only ioctl() and the kind of the device decide about the two private flags,
\* whatever bits the program passes to open() and fcntl(): a file is never
\* taken for a device, nor locked as one.
FlagsHonest ==
    \A f \in held : /\ (DEV \in alt_fd_list[f].flags) <=> (alt_fd_list[f].dev \in Devices)
                    /\ EXCL \in alt_fd_list[f].flags => DEV \in alt_fd_list[f].flags

\* The standard streams stay on the console, readable and writable as they
\* must be, through every close() and fcntl() of the program.
StdioWorks ==
    (booted /\ Console \in registered) =>
        /\ \A f \in Std : alt_fd_list[f].dev = Console
        /\ MayRead(0) /\ MayWrite(1) /\ MayWrite(2)

\* While a device is locked nobody else obtains a descriptor for it.
LockRespected ==
    [][\A f \in Fds : (alt_fd_list[f].dev = NULL /\ alt_fd_list'[f].dev \in Devices) =>
          \A g \in Fds \ {f} : alt_fd_list[g].dev = alt_fd_list'[f].dev =>
                                  EXCL \notin alt_fd_list[g].flags]_vars
=============================================================================
