------------------------------ MODULE FilesProofs ------------------------------
(***************************************************************************)
(* Whatever sequence of calls a program makes, its standard streams stay   *)
(* on the console, a lock on a device is exclusive, but for the one        *)
(* descriptor that ioctl overlooks, and a call that fails leaves the table *)
(* alone, for every size of the table.                                     *)
(***************************************************************************)
EXTENDS Files, TLAPS

Excl(i) == "EXCL" \in alt_fd_list[i].flags

\* How far boot has come: the streams that are on the console already.
Redirected == {s \in Stream : \/ boot = "main"
                              \/ boot = "stderr" /\ s # 2
                              \/ boot = "stdin" /\ s = 1}

OnConsole(s) == /\ alt_fd_list[s].dev = "jtag_uart"
                /\ alt_fd_list[s].mode = IF s = 0 THEN "RDONLY" ELSE "WRONLY"

\* Before main runs nothing but the streams is open, and nothing is locked.
Booting == ~Running => Open = Stream /\ \A i \in Fd : ~Excl(i)

\* The table: what is free is empty, the streams are open, and what is open
\* is not above the highest descriptor.
Table == /\ \A i \in Fd \ Open : alt_fd_list[i] = Free
         /\ Stream \subseteq Open
         /\ Redirected # {} => alt_max_fd >= 3
         /\ \A i \in Open : i \in Stream \/ i <= alt_max_fd

Streams == /\ boot # "devices" => "jtag_uart" \in alt_dev_list
           /\ \A s \in Redirected : OnConsole(s)

IInv == TypeOK /\ Booting /\ Table /\ Streams /\ LockedIsAlone

LEMMA Numbers == Stream \subseteq Fd /\ Fd \subseteq Nat /\ -1 \notin Fd /\ 3 \in Fd \ Stream
  BY FdAssumption DEF Stream, Fd

LEMMA InitIInv == Init => IInv
<1> SUFFICES ASSUME Init PROVE IInv
  OBVIOUS
<1>1. /\ boot = "devices" /\ Redirected = {}
  BY DEF Init, Redirected
<1>2. /\ alt_fd_list = [i \in Fd |-> IF i \in Stream THEN Entry("null", "RDONLY", {}) ELSE Free]
      /\ Entry("null", "RDONLY", {}) = [dev |-> "null", mode |-> "RDONLY", flags |-> {}]
      /\ Free = [dev |-> "none", mode |-> "RDONLY", flags |-> {}]
  BY DEF Init, Entry, Free
<1>3. TypeOK
  BY <1>1, <1>2, Numbers DEF Init, TypeOK, Device, Mode
<1>4. Open = Stream /\ \A i \in Fd : ~Excl(i)
  <2>1. \A i \in Fd : /\ alt_fd_list[i].flags = {}
                     /\ alt_fd_list[i].dev = IF i \in Stream THEN "null" ELSE "none"
    BY <1>2
  <2> QED BY <2>1, Numbers DEF Open, Excl
<1>5. Booting /\ LockedIsAlone
  BY <1>4 DEF Booting, LockedIsAlone, Excl
<1>6. Table
  BY <1>1, <1>2, <1>4 DEF Table
<1>7. Streams
  BY <1>1 DEF Streams, Running
<1> QED BY <1>3, <1>5, <1>6, <1>7 DEF IInv

\* What open does to the table.
Attempted(d, m, f, fd, r) ==
  /\ r.rc # "ok" => r.list = alt_fd_list
  /\ r.rc = "ok" => /\ fd \in Fd \ Open /\ fd > 2 /\ r.fd = fd
                    /\ r.list = [alt_fd_list EXCEPT ![fd] = Entry(d, m, f \union {"DEV"})]
                    /\ r.max \in Fd /\ r.max >= fd /\ d \in Device
                    /\ \A i \in Open : Excl(i) => alt_fd_list[i].dev # d
  /\ r.max \in Fd \union {-1} /\ r.max >= alt_max_fd
  /\ r.rc \in Error \union {"ok"}

LEMMA AttemptOK ==
  ASSUME IInv, NEW d \in Device \union {"other"}, NEW m \in Mode, NEW f \in SUBSET Settable,
         NEW fd \in Lowest, NEW r, r = Attempt(d, m, f, fd)
  PROVE  Attempted(d, m, f, fd, r)
<1> DEFINE top == IF fd > alt_max_fd THEN fd ELSE alt_max_fd
           taken == [alt_fd_list EXCEPT ![fd] = Entry(d, m, f \union {"DEV"})]
<1>1. /\ alt_max_fd \in Fd \union {-1} /\ alt_dev_list \subseteq Device
      /\ alt_fd_list \in [Fd -> [dev : Device \union {"none"}, mode : Mode,
                                 flags : SUBSET (Settable \union {"EXCL", "DEV"})]]
      /\ alt_max_fd \in Int
  BY Numbers DEF IInv, TypeOK
<1>2. ASSUME NEW e \in Error, r = [rc |-> e, fd |-> -1, list |-> alt_fd_list, max |-> alt_max_fd]
      PROVE  /\ r.rc # "ok" /\ r.list = alt_fd_list /\ r.max = alt_max_fd
             /\ r.rc \in Error
  <2>1. r.rc = e /\ r.list = alt_fd_list /\ r.max = alt_max_fd /\ e # "ok"
    BY <1>2 DEF Error
  <2> QED BY <1>1, <2>1
<1>3. CASE d \notin alt_dev_list
  BY <1>1, <1>2, <1>3 DEF Attempt, Error, Attempted
<1>4. CASE d \in alt_dev_list /\ fd = -1
  BY <1>1, <1>2, <1>4 DEF Attempt, Error, Attempted
<1>5. CASE d \in alt_dev_list /\ fd # -1
  <2>1. fd \in Fd \ Open /\ fd > 2 /\ fd \in Nat /\ d \in Device
    <3>1. fd \in Fd \ Open /\ fd \in Nat /\ d \in Device
      BY <1>1, <1>5, Numbers DEF Lowest
    <3>2. fd \notin Stream
      BY <3>1 DEF IInv, Table
    <3> QED BY <3>1, <3>2 DEF Stream
  <2>2. top \in Fd /\ top >= fd /\ top >= alt_max_fd /\ top \in Int
    BY <1>1, <2>1, Numbers
  <2>3. CASE Locked(d, fd, top)
    <3>1. r = [rc |-> "EACCES", fd |-> -1, list |-> Denied(taken, fd), max |-> top]
      BY <1>5, <2>3 DEF Attempt
    <3>2. Denied(taken, fd) = alt_fd_list
      <4>1. Denied(taken, fd) = [taken EXCEPT ![fd] = Free]
        BY <2>1 DEF Denied, Release
      <4>2. alt_fd_list[fd] = Free
        BY <2>1 DEF IInv, Table
      <4> QED BY <4>1, <4>2, <1>1, <2>1
    <3>3. r.rc = "EACCES" /\ r.list = alt_fd_list /\ r.max = top
      BY <3>1, <3>2
    <3> QED BY <3>3, <2>2 DEF Error, Attempted
  <2>4. CASE ~Locked(d, fd, top)
    <3>1. r = [rc |-> "ok", fd |-> fd, list |-> taken, max |-> top]
      BY <1>5, <2>4 DEF Attempt
    <3>2. ASSUME NEW i \in Open, Excl(i) PROVE alt_fd_list[i].dev # d
      <4>1. i \in Nat /\ i # fd /\ (i \in Stream \/ i <= alt_max_fd)
        BY <2>1, Numbers DEF IInv, Table, Open
      <4>2. i \in 0 .. top
        BY <4>1, <2>1, <2>2, <1>1 DEF Stream
      <4> QED BY <4>1, <4>2, <2>4, <3>2 DEF Locked, Excl
    <3>3. r.rc = "ok" /\ r.list = taken /\ r.max = top /\ r.fd = fd
      BY <3>1
    <3> QED BY <3>2, <3>3, <2>1, <2>2 DEF Attempted
  <2> QED BY <2>3, <2>4
<1> QED BY <1>3, <1>4, <1>5
-----------------------------------------------------------------------------
\* Boot goes on: the console is there, and one stream more is on it.
LEMMA RegisterStep == ASSUME IInv, Register PROVE IInv'
<1>1. /\ boot = "devices" /\ boot' = "stdout"
      /\ alt_dev_list' = alt_dev_list \union {"jtag_uart"}
      /\ UNCHANGED <<alt_fd_list, alt_max_fd, rc, blind>>
  BY DEF Register
<1>2. Redirected' = {} /\ Open' = Open /\ \A i : Excl(i)' = Excl(i)
  BY <1>1 DEF Redirected, Open, Excl
<1>3. TypeOK'
  BY <1>1 DEF IInv, TypeOK, Device
<1>4. Booting'
  BY <1>1, <1>2 DEF IInv, Booting, Running
<1>5. Table'
  BY <1>1, <1>2 DEF IInv, Table
<1>6. Streams'
  BY <1>1, <1>2 DEF Streams
<1>7. LockedIsAlone'
  BY <1>1, <1>2 DEF IInv, LockedIsAlone
<1> QED BY <1>3, <1>4, <1>5, <1>6, <1>7 DEF IInv

LEMMA RedirectStep == ASSUME IInv, Redirect PROVE IInv'
<1>1. /\ boot \in {"stdout", "stdin", "stderr"}
      /\ boot' = IF boot = "stdout" THEN "stdin" ELSE IF boot = "stdin" THEN "stderr" ELSE "main"
      /\ UNCHANGED <<alt_dev_list, blind>>
  BY DEF Redirect
<1>2. PICK s \in Stream : s = CASE boot = "stdout" -> 1 [] boot = "stdin" -> 0 [] OTHER -> 2
  BY DEF Stream
<1>3. s = IF boot = "stdout" THEN 1 ELSE IF boot = "stdin" THEN 0 ELSE 2
  BY <1>2
<1>4. PICK mode \in Mode : mode = IF s = 0 THEN "RDONLY" ELSE "WRONLY"
  BY DEF Mode
<1>5. PICK fd, r :
           /\ fd \in Lowest
           /\ r = Attempt("jtag_uart", mode, {}, fd)
           /\ alt_fd_list' = IF r.rc = "ok" THEN Release([r.list EXCEPT ![s] = r.list[r.fd]], r.fd)
                             ELSE r.list
           /\ alt_max_fd' = r.max
           /\ rc' = r.rc
  BY <1>2, <1>4 DEF Redirect
<1>6. Open = Stream /\ (\A i \in Fd : ~Excl(i)) /\ "jtag_uart" \in alt_dev_list /\ Stream \subseteq Fd
  BY <1>1, Numbers DEF IInv, Booting, Streams, Running
<1>7. PICK e : e = [dev |-> "jtag_uart", mode |-> mode, flags |-> {"DEV"}]
  OBVIOUS
<1>8. /\ alt_fd_list \in [Fd -> [dev : Device \union {"none"}, mode : Mode,
                                 flags : SUBSET (Settable \union {"EXCL", "DEV"})]]
      /\ e \in [dev : Device \union {"none"}, mode : Mode,
                flags : SUBSET (Settable \union {"EXCL", "DEV"})]
      /\ e.dev = "jtag_uart" /\ e.mode = mode /\ e.flags = {"DEV"}
  BY <1>7 DEF IInv, TypeOK, Device
<1>9. /\ fd \in Fd \ Open /\ fd > 2 /\ fd # s
      /\ r.rc = "ok" /\ r.fd = fd
      /\ r.list = [alt_fd_list EXCEPT ![fd] = e]
      /\ r.max \in Fd /\ r.max >= fd
  <2>1. "jtag_uart" \in Device \union {"other"} /\ {} \in SUBSET Settable
    BY DEF Device
  <2>2. fd \in Fd /\ fd # -1
    BY <1>5, <1>6, Numbers DEF Lowest
  <2>3. r.rc = "ok"
    <3>1. ~Locked("jtag_uart", fd, IF fd > alt_max_fd THEN fd ELSE alt_max_fd)
      <4>1. alt_max_fd \in Fd \union {-1}
        BY DEF IInv, TypeOK
      <4>2. (IF fd > alt_max_fd THEN fd ELSE alt_max_fd) \in Fd
        BY <2>2, <4>1, Numbers
      <4>3. \A top \in Fd : 0 .. top \subseteq Fd
        BY FdAssumption DEF Fd
      <4> QED BY <4>2, <4>3, <1>6 DEF Locked, Excl
    <3> QED BY <3>1, <2>2, <1>5, <1>6 DEF Attempt
  <2>4. Entry("jtag_uart", mode, {} \union {"DEV"}) = e
    BY <1>7 DEF Entry
  <2>5. /\ fd \in Fd \ Open /\ fd > 2 /\ r.fd = fd
        /\ r.list = [alt_fd_list EXCEPT ![fd] = Entry("jtag_uart", mode, {} \union {"DEV"})]
        /\ r.max \in Fd /\ r.max >= fd
    <3>1. fd \in Lowest /\ r = Attempt("jtag_uart", mode, {}, fd)
      BY <1>5
    <3>2. Attempted("jtag_uart", mode, {}, fd, r)
      BY <3>1, <2>1, AttemptOK, Zenon
    <3> QED BY <2>3, <3>2 DEF Attempted
  <2> QED BY <2>3, <2>4, <2>5, <1>6
<1>10. /\ \A i \in Fd : alt_fd_list'[i] = IF i = s THEN e ELSE alt_fd_list[i]
       /\ alt_fd_list' \in [Fd -> [dev : Device \union {"none"}, mode : Mode,
                                   flags : SUBSET (Settable \union {"EXCL", "DEV"})]]
  <2>1. r.list[fd] = e
    BY <1>8, <1>9
  <2>2. alt_fd_list' = [[r.list EXCEPT ![s] = e] EXCEPT ![fd] = Free]
    BY <1>5, <1>9, <2>1 DEF Release
  <2>3. alt_fd_list[fd] = Free
    BY <1>9 DEF IInv, Table
  <2>4. alt_fd_list' = [alt_fd_list EXCEPT ![s] = e]
    BY <2>2, <2>3, <1>6, <1>8, <1>9
  <2> QED BY <2>4, <1>6, <1>8
<1>11. Open' = Stream /\ \A i \in Fd : ~Excl(i)'
  <2>1. \A i \in Fd : alt_fd_list'[i].dev # "none" <=> i \in Stream
    BY <1>6, <1>8, <1>10 DEF Open
  <2> QED BY <2>1, <1>6, <1>8, <1>10 DEF Open, Excl
<1>12. TypeOK'
  BY <1>1, <1>5, <1>9, <1>10 DEF IInv, TypeOK
<1>13. Booting' /\ LockedIsAlone'
  BY <1>11 DEF Booting, LockedIsAlone, Excl
<1>14. Table'
  <2>1. alt_max_fd' >= 3
    <3>1. fd \in Nat /\ fd > 2 /\ alt_max_fd' \in Nat /\ alt_max_fd' >= fd
      BY <1>5, <1>9, Numbers
    <3> QED BY <3>1
  <2>2. \A i \in Fd \ Open' : alt_fd_list'[i] = Free
    BY <1>6, <1>10, <1>11 DEF IInv, Table
  <2> QED BY <2>1, <2>2, <1>11 DEF Table
<1>15. Streams'
  <2>1. Redirected' \subseteq Redirected \union {s}
    BY <1>1, <1>3 DEF Redirected, Stream
  <2>2. OnConsole(s)'
    BY <1>4, <1>6, <1>8, <1>10 DEF OnConsole
  <2>3. \A i \in Redirected \ {s} : OnConsole(i)'
    BY <1>6, <1>10 DEF IInv, Streams, OnConsole, Redirected
  <2> QED BY <2>1, <2>2, <2>3, <1>1, <1>6 DEF Streams
<1> QED BY <1>12, <1>13, <1>14, <1>15 DEF IInv
-----------------------------------------------------------------------------
(* The calls of a program that runs.                                       *)

\* A call that leaves the table alone.
LEMMA KeepStep ==
  ASSUME IInv, alt_fd_list' = alt_fd_list, UNCHANGED <<boot, alt_dev_list, blind>>,
         rc' \in Error \union {"ok"},
         alt_max_fd' \in Fd \union {-1}, alt_max_fd' >= alt_max_fd
  PROVE  IInv'
<1>1. Redirected' = Redirected /\ Open' = Open /\ Running' = Running /\ \A i : Excl(i)' = Excl(i)
  BY DEF Redirected, Open, Running, Excl
<1>2. TypeOK'
  BY DEF IInv, TypeOK
<1>3. Booting'
  BY <1>1 DEF IInv, Booting
<1>4. Table'
  <2>1. Open \subseteq Nat
    BY Numbers DEF Open
  <2>2. alt_max_fd \in Int
    BY Numbers DEF IInv, TypeOK
  <2>3. alt_max_fd' \in Int
    BY Numbers
  <2> QED BY <1>1, <2>1, <2>2, <2>3 DEF IInv, Table
<1>5. Streams'
  BY <1>1 DEF IInv, Streams, OnConsole
<1>6. LockedIsAlone'
  BY <1>1 DEF IInv, LockedIsAlone
<1> QED BY <1>2, <1>3, <1>4, <1>5, <1>6 DEF IInv

LEMMA OpenStep ==
  ASSUME IInv, Running, UNCHANGED <<boot, alt_dev_list>>,
         NEW d \in Device \union {"other"}, NEW m \in Mode, NEW f \in SUBSET Settable,
         OpenCall(d, m, f)
  PROVE  IInv'
<1>1. PICK fd, r :
           /\ fd \in Lowest
           /\ r = Attempt(d, m, f, fd)
           /\ alt_fd_list' = r.list /\ alt_max_fd' = r.max /\ rc' = r.rc
  BY DEF OpenCall
<1>2. UNCHANGED blind
  BY DEF OpenCall
<1>3. Attempted(d, m, f, fd, r)
  <2>1. r = Attempt(d, m, f, fd) /\ fd \in Lowest
    BY <1>1
  <2> QED BY <2>1, AttemptOK, Zenon
<1>4. CASE r.rc # "ok"
  BY <1>1, <1>2, <1>3, <1>4, KeepStep DEF Attempted
<1>5. CASE r.rc = "ok"
  <2>1. PICK e : e = [dev |-> d, mode |-> m, flags |-> f \union {"DEV"}]
    OBVIOUS
  <2>2. /\ fd \in Fd \ Open /\ fd > 2 /\ fd \in Nat
        /\ alt_fd_list' = [alt_fd_list EXCEPT ![fd] = e]
        /\ alt_max_fd' \in Fd /\ alt_max_fd' >= fd /\ d \in Device
        /\ \A i \in Open : Excl(i) => alt_fd_list[i].dev # d
    <3>1. Entry(d, m, f \union {"DEV"}) = e
      BY <2>1 DEF Entry
    <3> QED BY <1>1, <1>3, <1>5, <3>1, Numbers DEF Attempted
  <2>3. /\ alt_fd_list \in [Fd -> [dev : Device \union {"none"}, mode : Mode,
                                   flags : SUBSET (Settable \union {"EXCL", "DEV"})]]
        /\ e \in [dev : Device \union {"none"}, mode : Mode,
                  flags : SUBSET (Settable \union {"EXCL", "DEV"})]
        /\ e.dev = d /\ e.dev # "none" /\ "EXCL" \notin e.flags
    BY <2>1, <2>2, FlagAssumption DEF IInv, TypeOK, Device
  <2>4. \A i \in Fd : alt_fd_list'[i] = IF i = fd THEN e ELSE alt_fd_list[i]
    BY <2>2, <2>3
  <2>5. Open' = Open \union {fd} /\ \A i \in Fd : Excl(i)' <=> Excl(i) /\ i # fd
    BY <2>2, <2>3, <2>4 DEF Open, Excl
  <2>6. Redirected' = Redirected /\ Running' = Running
    BY DEF Redirected, Running
  <2>7. TypeOK'
    BY <1>1, <1>2, <1>3, <2>2, <2>3 DEF IInv, TypeOK, Attempted
  <2>8. Booting'
    BY <2>6 DEF Booting
  <2>9. Table'
    <3>1. alt_max_fd \in Int /\ alt_max_fd' \in Int /\ Open \subseteq Nat /\ alt_max_fd' >= alt_max_fd
      BY <1>1, <1>3, <2>2, Numbers DEF IInv, TypeOK, Open, Attempted
    <3>2. \A i \in Fd \ Open' : alt_fd_list'[i] = Free
      BY <2>4, <2>5 DEF IInv, Table
    <3> QED BY <2>2, <2>5, <2>6, <3>1, <3>2 DEF IInv, Table
  <2>10. Streams'
    BY <2>2, <2>4, <2>6, Numbers DEF IInv, Streams, OnConsole, Redirected, Stream
  <2>11. LockedIsAlone'
    <3> SUFFICES ASSUME NEW g \in Fd, Excl(g)', NEW h \in Open' \ {g, blind[g]}
                 PROVE  alt_fd_list'[h].dev # alt_fd_list'[g].dev
      BY <1>2 DEF LockedIsAlone, Excl
    <3>1. g # fd /\ Excl(g) /\ alt_fd_list'[g] = alt_fd_list[g]
      BY <2>4, <2>5
    <3>2. g \in Open
      BY <3>1 DEF IInv, Table, Free, Entry, Excl
    <3>3. CASE h = fd
      BY <3>1, <3>2, <3>3, <2>2, <2>3, <2>4
    <3>4. CASE h # fd
      <4>1. h \in Open \ {g, blind[g]} /\ alt_fd_list'[h] = alt_fd_list[h]
        BY <3>4, <2>4, <2>5 DEF Open
      <4> QED BY <4>1, <3>1 DEF IInv, LockedIsAlone, Excl
    <3> QED BY <3>3, <3>4
  <2> QED BY <2>7, <2>8, <2>9, <2>10, <2>11 DEF IInv
<1> QED BY <1>4, <1>5

\* A call that changes nothing but the flags of an open descriptor.
LEMMA FlagStep ==
  ASSUME IInv, Running, UNCHANGED <<boot, alt_dev_list, alt_max_fd>>, NEW fd \in Open,
         NEW F \in SUBSET (Settable \union {"EXCL", "DEV"}),
         alt_fd_list' = [alt_fd_list EXCEPT ![fd].flags = F]
  PROVE  /\ alt_fd_list' \in [Fd -> [dev : Device \union {"none"}, mode : Mode,
                                     flags : SUBSET (Settable \union {"EXCL", "DEV"})]]
         /\ \A i \in Fd : /\ alt_fd_list'[i].dev = alt_fd_list[i].dev
                          /\ alt_fd_list'[i].mode = alt_fd_list[i].mode
                          /\ alt_fd_list'[i].flags = IF i = fd THEN F ELSE alt_fd_list[i].flags
         /\ Booting' /\ Table' /\ Streams' /\ Open' = Open
<1>1. /\ alt_fd_list \in [Fd -> [dev : Device \union {"none"}, mode : Mode,
                                 flags : SUBSET (Settable \union {"EXCL", "DEV"})]]
      /\ fd \in Fd
  BY DEF IInv, TypeOK, Open
<1>2. alt_fd_list' = [alt_fd_list EXCEPT ![fd] = [alt_fd_list[fd] EXCEPT !.flags = F]]
  BY <1>1
<1>3. PICK e : e = [alt_fd_list[fd] EXCEPT !.flags = F]
  OBVIOUS
<1>4. /\ e \in [dev : Device \union {"none"}, mode : Mode,
                flags : SUBSET (Settable \union {"EXCL", "DEV"})]
      /\ e.dev = alt_fd_list[fd].dev /\ e.mode = alt_fd_list[fd].mode /\ e.flags = F
  BY <1>1, <1>3
<1>5. \A i \in Fd : alt_fd_list'[i] = IF i = fd THEN e ELSE alt_fd_list[i]
  BY <1>1, <1>2, <1>3
<1>6. alt_fd_list' \in [Fd -> [dev : Device \union {"none"}, mode : Mode,
                               flags : SUBSET (Settable \union {"EXCL", "DEV"})]]
  BY <1>1, <1>2, <1>3, <1>4
<1>7. Open' = Open /\ Redirected' = Redirected /\ Running'
  BY <1>4, <1>5 DEF Open, Redirected, Running
<1>8. Table'
  BY <1>5, <1>7 DEF IInv, Table
<1>9. Streams'
  BY <1>4, <1>5, <1>7, Numbers DEF IInv, Streams, OnConsole, Redirected
<1> QED BY <1>4, <1>5, <1>6, <1>7, <1>8, <1>9 DEF Booting

\* The lock finds everybody who is open, but for the highest descriptor.
LEMMA LockStep ==
  ASSUME IInv, Running, UNCHANGED <<boot, alt_dev_list>>, NEW fd \in Fd, Lock(fd)
  PROVE  IInv'
<1>1. fd \in Open
  BY DEF Lock
<1>2. CASE \E e \in {"ENOTTY", "EACCES"} : Keep(e)
  <2>1. alt_max_fd \in Int
    BY Numbers DEF IInv, TypeOK
  <2> QED BY <1>2, <2>1, KeepStep DEF Keep, Error, IInv, TypeOK
<1>3. CASE /\ ~\E i \in Scanned : i # fd /\ alt_fd_list[i].dev = alt_fd_list[fd].dev
           /\ alt_fd_list' = [alt_fd_list EXCEPT ![fd].flags = @ \union {"EXCL"}]
           /\ blind' = [blind EXCEPT ![fd] = alt_max_fd]
           /\ rc' = "ok" /\ UNCHANGED alt_max_fd
  <2>1. PICK F : F = alt_fd_list[fd].flags \union {"EXCL"}
    OBVIOUS
  <2>2. F \in SUBSET (Settable \union {"EXCL", "DEV"})
    BY <2>1 DEF IInv, TypeOK
  <2>3. alt_fd_list' = [alt_fd_list EXCEPT ![fd].flags = F]
    BY <1>3, <2>1
  <2>4. /\ alt_fd_list' \in [Fd -> [dev : Device \union {"none"}, mode : Mode,
                                    flags : SUBSET (Settable \union {"EXCL", "DEV"})]]
        /\ \A i \in Fd : /\ alt_fd_list'[i].dev = alt_fd_list[i].dev
                         /\ alt_fd_list'[i].flags = IF i = fd THEN F ELSE alt_fd_list[i].flags
        /\ Booting' /\ Table' /\ Streams' /\ Open' = Open
    BY <1>1, <1>3, <2>2, <2>3, FlagStep
  <2>5. alt_max_fd \in Fd /\ \A i \in Open : i <= alt_max_fd /\ i \in Nat
    <3>1. alt_max_fd >= 3 /\ alt_max_fd \in Fd \union {-1}
      BY DEF IInv, TypeOK, Table, Redirected, Running, Stream
    <3>2. \A i \in Open : i \in Nat /\ (i \in Stream \/ i <= alt_max_fd)
      BY Numbers DEF IInv, Table, Open
    <3> QED BY <3>1, <3>2, Numbers DEF Stream
  <2>6. TypeOK'
    BY <1>3, <2>4, <2>5 DEF IInv, TypeOK
  <2>7. LockedIsAlone'
    <3> SUFFICES ASSUME NEW g \in Fd, Excl(g)', NEW h \in Open \ {g, blind'[g]}
                 PROVE  alt_fd_list'[h].dev # alt_fd_list'[g].dev
      BY <2>4 DEF LockedIsAlone, Excl
    <3>0. h \in Fd /\ blind \in [Fd -> Fd \union {-1}]
      BY DEF Open, IInv, TypeOK
    <3>1. CASE g = fd
      <4>1. blind'[g] = alt_max_fd
        BY <1>3, <3>0, <3>1
      <4>2. h <= alt_max_fd /\ h # alt_max_fd /\ h \in Nat /\ alt_max_fd \in Nat
        BY <4>1, <2>5, Numbers
      <4>3. h \in Scanned
        BY <4>2 DEF Scanned
      <4> QED BY <4>3, <3>0, <3>1, <1>3, <2>4
    <3>2. CASE g # fd
      <4>1. Excl(g) /\ blind'[g] = blind[g]
        BY <1>3, <2>4, <3>0, <3>2 DEF Excl
      <4> QED BY <4>1, <2>4, <3>0 DEF IInv, LockedIsAlone, Excl
    <3> QED BY <3>1, <3>2
  <2> QED BY <2>4, <2>6, <2>7 DEF IInv
<1> QED BY <1>2, <1>3 DEF Lock

\* A call that sets no lock, and forgets no exception but its own.
LEMMA UnlockedStep ==
  ASSUME IInv, Running, UNCHANGED <<boot, alt_dev_list, alt_max_fd>>, NEW fd \in Open,
         NEW F \in SUBSET (Settable \union {"EXCL", "DEV"}),
         alt_fd_list' = [alt_fd_list EXCEPT ![fd].flags = F],
         "EXCL" \in F => Excl(fd) /\ blind' = blind,
         rc' = "ok", blind' = blind \/ blind' = [blind EXCEPT ![fd] = -1]
  PROVE  IInv'
<1>1. /\ alt_fd_list' \in [Fd -> [dev : Device \union {"none"}, mode : Mode,
                                  flags : SUBSET (Settable \union {"EXCL", "DEV"})]]
      /\ \A i \in Fd : /\ alt_fd_list'[i].dev = alt_fd_list[i].dev
                       /\ alt_fd_list'[i].flags = IF i = fd THEN F ELSE alt_fd_list[i].flags
      /\ Booting' /\ Table' /\ Streams' /\ Open' = Open
  BY FlagStep
<1>2. TypeOK'
  BY <1>1 DEF IInv, TypeOK
<1>3. LockedIsAlone'
  <2> SUFFICES ASSUME NEW g \in Fd, Excl(g)', NEW h \in Open \ {g, blind'[g]}
               PROVE  alt_fd_list'[h].dev # alt_fd_list'[g].dev
    BY <1>1 DEF LockedIsAlone, Excl
  <2>1. h \in Fd /\ fd \in Fd /\ blind \in [Fd -> Fd \union {-1}]
    BY DEF Open, IInv, TypeOK
  <2>2. Excl(g) /\ blind'[g] = blind[g]
    <3>1. CASE g = fd
      BY <3>1, <1>1, <2>1 DEF Excl
    <3>2. CASE g # fd
      BY <3>2, <1>1, <2>1 DEF Excl
    <3> QED BY <3>1, <3>2
  <2> QED BY <1>1, <2>1, <2>2 DEF IInv, LockedIsAlone, Excl
<1> QED BY <1>1, <1>2, <1>3 DEF IInv

LEMMA UnlockStep ==
  ASSUME IInv, Running, UNCHANGED <<boot, alt_dev_list>>, NEW fd \in Fd, Unlock(fd)
  PROVE  IInv'
<1>1. fd \in Open
  BY DEF Unlock
<1>2. CASE Keep("ENOTTY")
  <2>1. alt_max_fd \in Int
    BY Numbers DEF IInv, TypeOK
  <2> QED BY <1>2, <2>1, KeepStep DEF Keep, Error, IInv, TypeOK
<1>3. CASE /\ alt_fd_list' = [alt_fd_list EXCEPT ![fd].flags = @ \ {"EXCL"}]
           /\ blind' = [blind EXCEPT ![fd] = -1]
           /\ rc' = "ok" /\ UNCHANGED alt_max_fd
  <2>1. PICK F : F = alt_fd_list[fd].flags \ {"EXCL"}
    OBVIOUS
  <2>2. F \in SUBSET (Settable \union {"EXCL", "DEV"}) /\ "EXCL" \notin F
    BY <2>1 DEF IInv, TypeOK
  <2> QED BY <1>1, <1>3, <2>1, <2>2, UnlockedStep
<1> QED BY <1>2, <1>3 DEF Unlock

LEMMA SetFlagsStep ==
  ASSUME IInv, Running, UNCHANGED <<boot, alt_dev_list>>, NEW fd \in Fd,
         NEW f \in SUBSET Settable, SetFlags(fd, f)
  PROVE  IInv'
<1>1. /\ fd \in Open /\ rc' = "ok" /\ UNCHANGED <<alt_max_fd, blind>>
      /\ alt_fd_list' = [alt_fd_list EXCEPT ![fd].flags = (@ \ Settable) \union f]
  BY DEF SetFlags
<1>2. PICK F : F = (alt_fd_list[fd].flags \ Settable) \union f
  OBVIOUS
<1>3. F \in SUBSET (Settable \union {"EXCL", "DEV"})
  BY <1>2 DEF IInv, TypeOK
<1>4. "EXCL" \in F => Excl(fd)
  BY <1>2, FlagAssumption DEF Excl
<1> QED BY <1>1, <1>2, <1>3, <1>4, UnlockedStep

LEMMA CloseStep ==
  ASSUME IInv, Running, UNCHANGED <<boot, alt_dev_list>>, NEW fd \in Fd, Close(fd)
  PROVE  IInv'
<1>1. /\ fd \in Open /\ rc' \in {"ok", "EWOULDBLOCK"} /\ UNCHANGED alt_max_fd
      /\ alt_fd_list' = Release(alt_fd_list, fd)
      /\ blind' = IF fd > 2 THEN [blind EXCEPT ![fd] = -1] ELSE blind
  BY DEF Close
<1>2. CASE ~(fd > 2)
  <2>1. alt_max_fd \in Int
    BY Numbers DEF IInv, TypeOK
  <2>2. alt_fd_list' = alt_fd_list /\ blind' = blind
    BY <1>1, <1>2 DEF Release
  <2> QED BY <1>1, <2>1, <2>2, KeepStep DEF Error, IInv, TypeOK
<1>3. CASE fd > 2
  <2>1. /\ alt_fd_list \in [Fd -> [dev : Device \union {"none"}, mode : Mode,
                                   flags : SUBSET (Settable \union {"EXCL", "DEV"})]]
        /\ blind \in [Fd -> Fd \union {-1}]
        /\ Free \in [dev : Device \union {"none"}, mode : Mode,
                     flags : SUBSET (Settable \union {"EXCL", "DEV"})]
        /\ Free.dev = "none" /\ "EXCL" \notin Free.flags
    BY DEF IInv, TypeOK, Free, Entry, Mode
  <2>2. \A i \in Fd : alt_fd_list'[i] = IF i = fd THEN Free ELSE alt_fd_list[i]
    BY <1>1, <1>3, <2>1 DEF Release
  <2>3. Open' = Open \ {fd} /\ \A i \in Fd : Excl(i)' <=> Excl(i) /\ i # fd
    BY <2>1, <2>2 DEF Open, Excl
  <2>4. Redirected' = Redirected /\ Running' /\ fd \notin Stream
    BY <1>3 DEF Redirected, Running, Stream
  <2>5. TypeOK'
    BY <1>1, <1>3, <2>1 DEF IInv, TypeOK, Release, Error
  <2>6. Table'
    BY <1>1, <2>2, <2>3, <2>4 DEF IInv, Table
  <2>7. Streams'
    BY <2>2, <2>4, Numbers DEF IInv, Streams, OnConsole, Redirected
  <2>8. LockedIsAlone'
    <3> SUFFICES ASSUME NEW g \in Fd, Excl(g)', NEW h \in Open' \ {g, blind'[g]}
                 PROVE  alt_fd_list'[h].dev # alt_fd_list'[g].dev
      BY DEF LockedIsAlone, Excl
    <3>1. Excl(g) /\ g # fd /\ h \in Open /\ h # fd /\ h \in Fd
      BY <2>3 DEF Open
    <3>2. blind'[g] = blind[g]
      BY <1>1, <1>3, <2>1, <3>1
    <3> QED BY <2>2, <3>1, <3>2 DEF IInv, LockedIsAlone, Excl
  <2> QED BY <2>4, <2>5, <2>6, <2>7, <2>8 DEF IInv, Booting
<1> QED BY <1>2, <1>3

LEMMA NextIInv == IInv /\ [Next]_vars => IInv'
<1> SUFFICES ASSUME IInv, [Next]_vars PROVE IInv'
  OBVIOUS
<1>1. alt_max_fd \in Int /\ rc \in Error \union {"ok"} /\ alt_max_fd \in Fd \union {-1}
  BY Numbers DEF IInv, TypeOK
<1>2. CASE UNCHANGED vars
  BY <1>1, <1>2, KeepStep DEF vars
<1>3. CASE Register \/ Redirect
  BY <1>3, RegisterStep, RedirectStep
<1>4. ASSUME Running, Call, UNCHANGED <<boot, alt_dev_list>> PROVE IInv'
  <2>1. ASSUME NEW d \in Device \union {"other"}, NEW m \in Mode, NEW f \in SUBSET Settable,
               OpenCall(d, m, f)
        PROVE  IInv'
    BY <1>4, <2>1, OpenStep
  <2>2. ASSUME NEW fd \in Fd, Close(fd) \/ Lock(fd) \/ Unlock(fd)
        PROVE  IInv'
    BY <1>4, <2>2, CloseStep, LockStep, UnlockStep
  <2>3. ASSUME NEW fd \in Fd, NEW f \in SUBSET Settable, SetFlags(fd, f) PROVE IInv'
    BY <1>4, <2>3, SetFlagsStep
  <2>4. ASSUME NEW e \in Error \union {"ok"}, Keep(e) PROVE IInv'
    BY <1>1, <1>4, <2>4, KeepStep DEF Keep
  <2>5. ASSUME NEW fd \in Fd, \/ Read(fd) \/ Write(fd) \/ Lseek(fd) \/ Fstat(fd) \/ Isatty(fd)
                              \/ \E known \in BOOLEAN : Ioctl(fd, known)
        PROVE  IInv'
    BY <2>4, <2>5 DEF Read, Write, Lseek, Fstat, Isatty, Ioctl, Error
  <2> QED BY <1>4, <2>1, <2>2, <2>3, <2>5 DEF Call
<1> QED BY <1>2, <1>3, <1>4 DEF Next

\* What is proved below of every reachable state.
THEOREM Invariance == Spec => []IInv
<1> QED BY InitIInv, NextIInv, PTL DEF Spec

\* The table keeps its types.
THEOREM TypeCorrect == Spec => []TypeOK
<1>1. IInv => TypeOK
  BY DEF IInv
<1> QED BY <1>1, Invariance, PTL

\* alt_fd_lock.c and alt_open.c: whoever has locked a device is alone on it, but
\* for the one descriptor that ioctl overlooks, for every size of the table.
THEOREM LockExcludes == Spec => []LockedIsAlone
<1>1. IInv => LockedIsAlone
  BY DEF IInv
<1> QED BY <1>1, Invariance, PTL

\* alt_io_redirect.c and alt_release_fd.c: no sequence of calls takes the
\* console from the standard streams.
THEOREM StreamsKept == Spec => []StreamsStay
<1>1. IInv => StreamsStay
  <2> SUFFICES ASSUME IInv, Running
               PROVE  /\ \A s \in Stream : alt_fd_list[s].dev = "jtag_uart"
                      /\ MayRead(0) /\ MayWrite(1) /\ MayWrite(2)
    BY DEF StreamsStay
  <2>1. \A s \in Stream : OnConsole(s)
    BY DEF IInv, Streams, Redirected, Running
  <2>2. 0 \in Stream /\ 1 \in Stream /\ 2 \in Stream
    BY DEF Stream
  <2> QED BY <2>1, <2>2 DEF OnConsole, MayRead, MayWrite, Device
<1> QED BY <1>1, Invariance, PTL

\* A call that fails has changed nothing: the descriptor of an open that finds
\* its device locked is given back (alt_open.c:139-157).
THEOREM FailuresLeaveNoTrace == Spec => FailureLeavesNoTrace
<1>1. IInv /\ [Next]_vars => [rc' \in Error \ {"EWOULDBLOCK"} => alt_fd_list' = alt_fd_list]_vars
  <2> SUFFICES ASSUME IInv, Next, rc' \in Error \ {"EWOULDBLOCK"}
               PROVE  alt_fd_list' = alt_fd_list
    OBVIOUS
  <2>0. rc' # "ok" /\ rc' # "EWOULDBLOCK"
    BY DEF Error
  <2>1. CASE Register
    BY <2>1 DEF Register
  <2>2. CASE Redirect
    <3>1. PICK s \in Stream : s = CASE boot = "stdout" -> 1 [] boot = "stdin" -> 0 [] OTHER -> 2
      BY DEF Stream
    <3>2. PICK mode \in Mode : mode = IF s = 0 THEN "RDONLY" ELSE "WRONLY"
      BY DEF Mode
    <3>3. PICK fd, r :
             /\ fd \in Lowest
             /\ r = Attempt("jtag_uart", mode, {}, fd)
             /\ alt_fd_list' = IF r.rc = "ok" THEN Release([r.list EXCEPT ![s] = r.list[r.fd]], r.fd)
                               ELSE r.list
             /\ rc' = r.rc
      BY <2>2, <3>1, <3>2 DEF Redirect
    <3>4. r = Attempt("jtag_uart", mode, {}, fd) /\ "jtag_uart" \in Device \union {"other"}
          /\ {} \in SUBSET Settable /\ fd \in Lowest
      BY <3>3 DEF Device
    <3>5. Attempted("jtag_uart", mode, {}, fd, r)
      BY <3>4, AttemptOK, Zenon
    <3> QED BY <2>0, <3>3, <3>5 DEF Attempted
  <2>3. ASSUME NEW d \in Device \union {"other"}, NEW m \in Mode, NEW f \in SUBSET Settable,
               OpenCall(d, m, f)
        PROVE  alt_fd_list' = alt_fd_list
    <3>1. PICK fd, r :
             /\ fd \in Lowest
             /\ r = Attempt(d, m, f, fd)
             /\ alt_fd_list' = r.list /\ rc' = r.rc
      BY <2>3 DEF OpenCall
    <3>2. r = Attempt(d, m, f, fd) /\ fd \in Lowest
      BY <3>1
    <3>3. Attempted(d, m, f, fd, r)
      BY <3>2, AttemptOK, Zenon
    <3> QED BY <2>0, <3>1, <3>3 DEF Attempted
  <2>4. ASSUME NEW fd \in Fd, Close(fd) \/ \E f \in SUBSET Settable : SetFlags(fd, f)
        PROVE  FALSE
    BY <2>0, <2>4 DEF Close, SetFlags
  <2>5. ASSUME NEW fd \in Fd, \/ Read(fd) \/ Write(fd) \/ Lseek(fd) \/ Fstat(fd) \/ Isatty(fd)
                              \/ \E known \in BOOLEAN : Ioctl(fd, known)
                              \/ Lock(fd) \/ Unlock(fd)
        PROVE  alt_fd_list' = alt_fd_list
    BY <2>0, <2>5 DEF Read, Write, Lseek, Fstat, Isatty, Ioctl, Lock, Unlock, Keep
  <2> QED BY <2>1, <2>2, <2>3, <2>4, <2>5 DEF Next, Call
<1> QED BY <1>1, Invariance, PTL DEF Spec, FailureLeavesNoTrace
=============================================================================
