--------------------------------- MODULE Files ---------------------------------
(***************************************************************************)
(* The file descriptors of the HAL, between the C library and the drivers: *)
(* the table, the redirection of the standard streams at boot, and the     *)
(* calls open, close, read, write, ioctl, fcntl, lseek, fstat and isatty.  *)
(*                                                                         *)
(* This system has two devices, the console and /dev/null, and no file     *)
(* system.  The calls come from one program, in any order.  It uses only   *)
(* descriptors it has: a closed one has no device, and every call would    *)
(* follow a null pointer.                                                  *)
(***************************************************************************)
EXTENDS Integers

CONSTANTS ALT_MAX_FD,   \* 32
          Settable      \* bound: the flags of fcntl that are told apart

ASSUME FdAssumption == ALT_MAX_FD \in Nat /\ ALT_MAX_FD > 3
ASSUME FlagAssumption == Settable \intersect {"EXCL", "DEV"} = {}

VARIABLES boot,         \* what alt_main has left to do before it calls main
          alt_dev_list, \* the registered devices
          alt_fd_list,
          alt_max_fd,   \* the highest descriptor that was ever given
          rc,           \* observed only: how the last call ended, as far as this layer decides
          blind         \* observed only: the descriptor that the lock of another overlooks

vars == <<boot, alt_dev_list, alt_fd_list, alt_max_fd, rc, blind>>

Fd == 0 .. ALT_MAX_FD - 1
Stream == 0 .. 2
Device == {"jtag_uart", "null"}
Mode == {"RDONLY", "WRONLY", "RDWR"}
Error == {"ENODEV", "EMFILE", "EACCES", "ENOTTY", "EWOULDBLOCK", "ENOTSUP"}

Entry(d, m, f) == [dev |-> d, mode |-> m, flags |-> f]
Free == Entry("none", "RDONLY", {})
Open == {i \in Fd : alt_fd_list[i].dev # "none"}
-----------------------------------------------------------------------------
(* The table: alt_get_fd, alt_release_fd, alt_file_locked.                 *)

\* Fault: nothing is reserved.
FaultReleaseAny(list, fd) == [list EXCEPT ![fd] = Free]
\* The standard streams are never given back.
Release(list, fd) == IF fd > 2 THEN [list EXCEPT ![fd] = Free] ELSE list

\* Fault: the last descriptor is overlooked.
FaultLocked(d, fd, top) ==
  \E i \in 0 .. top - 1 : i # fd /\ alt_fd_list[i].dev = d /\ "EXCL" \in alt_fd_list[i].flags
\* Somebody has the device for himself.
Locked(d, fd, top) ==
  \E i \in 0 .. top : i # fd /\ alt_fd_list[i].dev = d /\ "EXCL" \in alt_fd_list[i].flags

\* Fault: the entry stays.
FaultDenied(taken, fd) == taken
\* The clean-up of an open that comes too late.
Denied(taken, fd) == Release(taken, fd)

\* The lowest free descriptor, or -1: the table is full.
Lowest == IF Open = Fd THEN {-1} ELSE {i \in Fd \ Open : \A j \in Fd \ Open : i <= j}

\* open takes the descriptor fd, and gives it back when the device is locked;
\* the highest descriptor it ever took it remembers in any case.
Attempt(d, m, f, fd) ==
  LET top == IF fd > alt_max_fd THEN fd ELSE alt_max_fd
      taken == [alt_fd_list EXCEPT ![fd] = Entry(d, m, f \union {"DEV"})]
      Result(r, i, list, max) == [rc |-> r, fd |-> i, list |-> list, max |-> max]
  IN IF d \notin alt_dev_list THEN Result("ENODEV", -1, alt_fd_list, alt_max_fd)
     ELSE IF fd = -1 THEN Result("EMFILE", -1, alt_fd_list, alt_max_fd)
     ELSE IF Locked(d, fd, top) THEN Result("EACCES", -1, Denied(taken, fd), top)
     ELSE Result("ok", fd, taken, top)
-----------------------------------------------------------------------------
(* Boot.  Until they are redirected the streams are on /dev/null.          *)

Init == /\ boot = "devices"
        /\ alt_dev_list = {"null"}
        /\ alt_fd_list = [i \in Fd |-> IF i \in Stream THEN Entry("null", "RDONLY", {}) ELSE Free]
        /\ alt_max_fd = -1
        /\ rc = "ok" /\ blind = [i \in Fd |-> -1]

Running == boot = "main"

\* alt_sys_init: the driver of the console registers its device.
Register == /\ boot = "devices"
            /\ boot' = "stdout"
            /\ alt_dev_list' = alt_dev_list \union {"jtag_uart"}
            /\ UNCHANGED <<alt_fd_list, alt_max_fd, rc, blind>>

\* alt_io_redirect opens the console once for each stream, copies the entry
\* and gives the descriptor back.
Redirect ==
  /\ boot \in {"stdout", "stdin", "stderr"}
  /\ boot' = CASE boot = "stdout" -> "stdin" [] boot = "stdin" -> "stderr" [] OTHER -> "main"
  /\ \E fd \in Lowest :
       LET s == CASE boot = "stdout" -> 1 [] boot = "stdin" -> 0 [] OTHER -> 2
           r == Attempt("jtag_uart", IF s = 0 THEN "RDONLY" ELSE "WRONLY", {}, fd)
       IN /\ alt_fd_list' = IF r.rc = "ok" THEN Release([r.list EXCEPT ![s] = r.list[r.fd]], r.fd)
                            ELSE r.list
          /\ alt_max_fd' = r.max
          /\ rc' = r.rc
  /\ UNCHANGED <<alt_dev_list, blind>>
-----------------------------------------------------------------------------
(* The calls.                                                              *)

OpenCall(d, m, f) ==
  /\ \E fd \in Lowest :
       LET r == Attempt(d, m, f, fd)
       IN alt_fd_list' = r.list /\ alt_max_fd' = r.max /\ rc' = r.rc
  /\ UNCHANGED blind

\* The driver's close may refuse: the console with O_NONBLOCK does, while it
\* has something to send.  The descriptor is given back all the same.
Close(fd) ==
  /\ fd \in Open
  /\ rc' \in {"ok"} \union {e \in {"EWOULDBLOCK"} : /\ alt_fd_list[fd].dev = "jtag_uart"
                                                   /\ "NONBLOCK" \in alt_fd_list[fd].flags}
  /\ alt_fd_list' = Release(alt_fd_list, fd)
  /\ blind' = IF fd > 2 THEN [blind EXCEPT ![fd] = -1] ELSE blind
  /\ UNCHANGED alt_max_fd

Keep(result) == rc' = result /\ UNCHANGED <<alt_fd_list, alt_max_fd, blind>>

\* The console reads and writes, /dev/null only writes; the rest is up to the
\* driver (JtagUart).
MayRead(fd) == alt_fd_list[fd].mode # "WRONLY" /\ alt_fd_list[fd].dev = "jtag_uart"
MayWrite(fd) == alt_fd_list[fd].mode # "RDONLY" /\ alt_fd_list[fd].dev \in Device
Read(fd) == fd \in Open /\ Keep(IF MayRead(fd) THEN "ok" ELSE "EACCES")
Write(fd) == fd \in Open /\ Keep(IF MayWrite(fd) THEN "ok" ELSE "EACCES")

\* alt_fd_lock looks at the descriptors below the highest one only.
Scanned == 0 .. alt_max_fd - 1

\* ioctl TIOCEXCL.  A descriptor that is not a device's asks the driver, and
\* no driver knows the request.
Lock(fd) ==
  /\ fd \in Open
  /\ IF "DEV" \notin alt_fd_list[fd].flags THEN Keep("ENOTTY")
     ELSE IF \E i \in Scanned : i # fd /\ alt_fd_list[i].dev = alt_fd_list[fd].dev THEN Keep("EACCES")
     ELSE /\ alt_fd_list' = [alt_fd_list EXCEPT ![fd].flags = @ \union {"EXCL"}]
          /\ blind' = [blind EXCEPT ![fd] = alt_max_fd]
          /\ rc' = "ok" /\ UNCHANGED alt_max_fd

\* ioctl TIOCNXCL, alt_fd_unlock.
Unlock(fd) ==
  /\ fd \in Open
  /\ IF "DEV" \notin alt_fd_list[fd].flags THEN Keep("ENOTTY")
     ELSE /\ alt_fd_list' = [alt_fd_list EXCEPT ![fd].flags = @ \ {"EXCL"}]
          /\ blind' = [blind EXCEPT ![fd] = -1]
          /\ rc' = "ok" /\ UNCHANGED alt_max_fd

\* Any other request goes to the driver; the console knows two (JtagUart).
Ioctl(fd, known) ==
  fd \in Open /\ Keep(IF known /\ alt_fd_list[fd].dev = "jtag_uart" THEN "ok" ELSE "ENOTTY")

\* fcntl F_SETFL; F_GETFL only reads.
SetFlags(fd, f) ==
  /\ fd \in Open
  /\ alt_fd_list' = [alt_fd_list EXCEPT ![fd].flags = (@ \ Settable) \union f]
  /\ rc' = "ok" /\ UNCHANGED <<alt_max_fd, blind>>

\* No device of this system seeks, and none has an fstat of its own: each is a
\* character device, and a terminal.
Lseek(fd) == fd \in Open /\ Keep("ENOTSUP")
Fstat(fd) == fd \in Open /\ Keep("ok")
Isatty(fd) == fd \in Open /\ Keep("ok")

Call == \/ \E d \in Device \union {"other"}, m \in Mode, f \in SUBSET Settable : OpenCall(d, m, f)
        \/ \E fd \in Fd : \/ Close(fd) \/ Read(fd) \/ Write(fd)
                          \/ Lock(fd) \/ Unlock(fd) \/ \E known \in BOOLEAN : Ioctl(fd, known)
                          \/ \E f \in SUBSET Settable : SetFlags(fd, f)
                          \/ Lseek(fd) \/ Fstat(fd) \/ Isatty(fd)

Next == \/ Register \/ Redirect
        \/ Running /\ Call /\ UNCHANGED <<boot, alt_dev_list>>

Spec == Init /\ [][Next]_vars
-----------------------------------------------------------------------------
TypeOK ==
  /\ boot \in {"devices", "stdout", "stdin", "stderr", "main"}
  /\ alt_dev_list \subseteq Device
  /\ alt_fd_list \in [Fd -> [dev : Device \union {"none"}, mode : Mode,
                             flags : SUBSET (Settable \union {"EXCL", "DEV"})]]
  /\ alt_max_fd \in Fd \union {-1}
  /\ rc \in Error \union {"ok"}
  /\ blind \in [Fd -> Fd \union {-1}]

\* Whoever has locked a device is alone on it: ioctl finds the others that are
\* open, and open finds the lock.  There is one exception, and it is the code's
\* mistake: ioctl does not look at the highest descriptor that was ever given
\* (alt_fd_lock.c:61 says <, where alt_open.c:79 says <=).
LockedIsAlone ==
  \A f \in Fd : "EXCL" \in alt_fd_list[f].flags =>
    \A g \in Open \ {f, blind[f]} : alt_fd_list[g].dev # alt_fd_list[f].dev

\* A call that fails leaves the table of descriptors as it was, whichever of its
\* steps failed: no descriptor leaks from an open that finds its device locked.
\* (alt_max_fd may stay raised.)  Only a close that would block gives its
\* descriptor away.
FailureLeavesNoTrace ==
  [][rc' \in Error \ {"EWOULDBLOCK"} => alt_fd_list' = alt_fd_list]_vars

\* Once main runs, no sequence of calls takes the console from it: printf
\* always finds a console that it may write to.
StreamsStay ==
  Running => /\ \A s \in Stream : alt_fd_list[s].dev = "jtag_uart"
             /\ MayRead(0) /\ MayWrite(1) /\ MayWrite(2)
=============================================================================
