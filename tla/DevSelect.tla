------------------------------ MODULE DevSelect ------------------------------
(***************************************************************************)
(* How `udb` finds its device on Linux (client/src/platform_linux.cpp,     *)
(* client/src/list.cpp, main of client/src/udb.cpp).  Every udb process    *)
(* scans sysfs again: `-s` turns a serial number into a list number, the   *)
(* number into a bus and device number, these into a /dev/videoN node or,  *)
(* without one, a usbfs file.  Between two scans devices come and go.      *)
(* `detach`, `attach` and `usbreset` then act on the device's driver, all  *)
(* other commands send control requests to the file that was opened.       *)
(*                                                                         *)
(* The scans share buffers between iterations: a sysfs file that is not    *)
(* there leaves in `line` and `sysfs_sn` what was read before (at first    *)
(* whatever the stack held), and get_v4l2_index writes paths over longer   *)
(* ones without clearing them, so that the end of a longer name may stay   *)
(* behind a shorter one.  A path is a sequence of pieces of text, "/" one  *)
(* of them; what may be left over is spelled in single characters.         *)
(***************************************************************************)
EXTENDS Integers, Sequences, FiniteSets, SequencesExt

CONSTANTS
    Port,          \* the USB ports of the host
    Bus,           \* of each port: its bus number,
    Hub, Name,     \* the sysfs directory it is in, the name it has there
    Entries,       \* /sys/bus/usb/devices in readdir order: for every port
                   \* [port, iface]: a device, or one of its interfaces
    Device,        \* the devices that may be plugged in: [vid, pid, sn, uvc]
    Supported,     \* usb_support_list: the <<vid, pid>> of UVC devices
    NodeTail,      \* where the node of a device's interface 0 is below it
    PlatLink,      \* the link of a video node that is no USB device
    PlatNode,      \* the number of that node
    Serial,        \* the serial numbers a user may type after -s
    MaxIndex,      \* the numbers a user may type after -d are 0 .. MaxIndex
    MaxNode,       \* video nodes are numbered below MaxNode
    MaxPlug,       \* bound on the number of plug and unplug events
    MaxRun,        \* bound on the number of udb processes
    NoDevice,      \* nothing is plugged in
    NoSerial,      \* the device has no serial number: no file `serial`
    NoUsb,         \* stands for the port of PlatNode's device
    Unlisted       \* no valid list

Path == [p \in Port |-> Hub[p] \o Name[p]]

ASSUME DevAssumption ==
    /\ Bus \in [Port -> 1 .. 255]
    /\ \A p, q \in Port : Path[p] = Path[q] => p = q
    /\ \A e \in Range(Entries) : e.port \in Port /\ e.iface \in BOOLEAN
    /\ \A p \in Port : \E e \in Range(Entries) : e.port = p /\ ~e.iface
    /\ \A s \in Supported : s[1] # s[2]
    /\ PlatNode \in 0 .. MaxNode - 1
    /\ {MaxIndex, MaxNode, MaxPlug, MaxRun} \subseteq Nat

VARIABLES
    \* the host: what is plugged in, its device number, the next number of
    \* each bus, the ports whose interface 0 has the kernel's uvcvideo driver,
    \* the number of their video node
    plug, devnum, nextdev, bound, node,
    \* the udb process: where it is, its command line, the globals dev_index
    \* and usb_dev, what udb_ctrl.fd is open on, udb_ctrl.devclass, how it ended
    pc, arg, dev_index, usb_dev, fd, devclass, outcome,
    \* bounds, and history: the last `udb list` while nothing was plugged or
    \* unplugged since; whether something was since this process started; the
    \* device that the last request reached
    nplug, nrun, listed, moved, sent

hostVars == <<plug, devnum, nextdev, bound, node>>
procVars == <<pc, arg, dev_index, usb_dev, fd, devclass, outcome>>
vars == <<hostVars, procVars, nplug, nrun, listed, moved, sent>>

NoNode == -1
Nobody == [port |-> NoDevice, num |-> 0]         \* no device
Platform == [port |-> NoUsb, num |-> 0]          \* the device behind PlatNode
NoDev == [bus |-> 0, dev |-> 0, class |-> 0]     \* usb_dev as main finds it
NoArg == [cmd |-> "none", by |-> "none", n |-> 0, sn |-> << >>]
USB_CLASS_UVC == 1
NET_CLASS_UDP == 4

Init ==
    /\ plug = [p \in Port |-> NoDevice]
    /\ devnum = [p \in Port |-> 0]
    /\ nextdev = [b \in Range(Bus) |-> 2]         \* the root hub has number 1
    /\ bound = {} /\ node = [p \in Port |-> NoNode]
    /\ pc = "idle" /\ arg = NoArg /\ dev_index = 1 /\ usb_dev = NoDev
    /\ fd = Nobody /\ devclass = 0 /\ outcome = "none"
    /\ nplug = 0 /\ nrun = 0 /\ listed = Unlisted /\ moved = FALSE /\ sent = Nobody

Id(p) == [port |-> p, num |-> devnum[p]]

-----------------------------------------------------------------------------
(* The kernel: numbers are given out in order, video nodes get the lowest    *)
(* free number.                                                              *)

FreeNode == CHOOSE n \in 0 .. MaxNode - 1 :
    /\ n # PlatNode /\ \A p \in Port : node[p] # n
    /\ \A m \in 0 .. n - 1 : m = PlatNode \/ \E p \in Port : node[p] = m

Probe(p) == bound' = bound \cup {p} /\ node' = [node EXCEPT ![p] = FreeNode]
Disconnect(p) == bound' = bound \ {p} /\ node' = [node EXCEPT ![p] = NoNode]

Changed == /\ nplug < MaxPlug /\ nplug' = nplug + 1
           /\ listed' = Unlisted /\ moved' = TRUE

PlugIn(p, d) ==
    /\ plug[p] = NoDevice /\ Changed
    /\ plug' = [plug EXCEPT ![p] = d]
    /\ devnum' = [devnum EXCEPT ![p] = nextdev[Bus[p]]]
    /\ nextdev' = [nextdev EXCEPT ![Bus[p]] = @ + 1]
    /\ IF d.uvc THEN Probe(p) ELSE UNCHANGED <<bound, node>>
    /\ UNCHANGED <<procVars, nrun, sent>>

Unplug(p) ==
    /\ plug[p] # NoDevice /\ Changed
    /\ plug' = [plug EXCEPT ![p] = NoDevice]
    /\ devnum' = [devnum EXCEPT ![p] = 0]
    /\ Disconnect(p)
    /\ UNCHANGED <<nextdev, procVars, nrun, sent>>

-----------------------------------------------------------------------------
(* get_v4l2_index                                                            *)

(* Text copied over longer text without a terminating NUL. *)
Overlay(new, old) == new \o SubSeq(old, Len(new) + 1, Len(old))

HasNode(i) == i = PlatNode \/ \E p \in Port : node[p] = i
NodePort(i) == CHOOSE p \in Port : node[p] = i
NodeOwner(i) == IF i = PlatNode THEN Platform ELSE Id(NodePort(i))
(* What /sys/class/video4linux/video<i> links to: below the directory of the *)
(* device that of its interface, <name>:1.0.                                 *)
LinkOf(p) == Path[p] \o <<"/">> \o Name[p] \o NodeTail
NodeLink(i) == IF i = PlatNode THEN PlatLink ELSE LinkOf(NodePort(i))

Slashes(s) == {j \in DOMAIN s : s[j] = "/"}

(* The link without its last three components. *)
ParentDir(s) ==
    LET cut == CHOOSE j \in Slashes(s) :
                  Cardinality({i \in Slashes(s) : i <= j}) = Cardinality(Slashes(s)) - 2
    IN  SubSeq(s, 1, cut - 1)


SameNumbers(b, d, bus, dev) == d = dev /\ b = bus

(* One iteration: read busnum and devnum of the directory; files that do not *)
(* exist leave the last number read in `line`, for both.                     *)
TryNode(r, i, bus, dev) ==
    IF r.index # -1 \/ ~HasNode(i) THEN r
    ELSE LET link == Overlay(NodeLink(i), r.link)
             dir  == Overlay(ParentDir(link), r.dir)
             at   == {p \in Port : plug[p] # NoDevice /\ Path[p] = dir}
             b    == IF at = {} THEN r.line ELSE Bus[CHOOSE p \in at : TRUE]
             d    == IF at = {} THEN r.line ELSE devnum[CHOOSE p \in at : TRUE]
         IN  [link |-> link, dir |-> dir, line |-> d,
              index |-> IF SameNumbers(b, d, bus, dev) THEN i ELSE -1]

get_v4l2_index(bus, dev) ==
    FoldLeft(LAMBDA r, i : TryNode(r, i - 1, bus, dev),
             [link |-> << >>, dir |-> << >>, line |-> 0, index |-> -1],
             [i \in 1 .. MaxNode |-> i]).index

-----------------------------------------------------------------------------
(* The scan that print_connected_list, convert_sn_to_index and               *)
(* select_usb_dev_by_index have in common: the entries that count.           *)

\* MUTANTS: the product id is not compared.
in_support_list_only_vid(vid, pid) == \E s \in Supported : s[1] = vid
in_support_list_all_only_vid(vid, pid, usbclass) == \E s \in Supported : s[1] = vid

in_support_list(vid, pid) == <<vid, pid>> \in Supported

(* get_support_list_usbclass; the other getters look entries up like it. *)
get_support_list_usbclass(vid, pid) == IF in_support_list(vid, pid) THEN USB_CLASS_UVC ELSE 0

in_support_list_all(vid, pid, usbclass) == <<vid, pid>> \in Supported /\ usbclass = USB_CLASS_UVC

(* The entries that count: for `list`, and for -d and -s. *)
Counts(what, vid, pid) ==
    IF what = "list" THEN in_support_list_all(vid, pid, USB_CLASS_UVC)
    ELSE in_support_list(vid, pid)

(* An interface's directory has no idVendor: `line` is parsed twice as it is. *)
Visit(what, r, e) ==
    LET d   == plug[e.port]
        vid == IF e.iface THEN r.line ELSE d.vid
        pid == IF e.iface THEN r.line ELSE d.pid
    IN  IF Counts(what, vid, pid)
        THEN [rows |-> Append(r.rows, e), line |-> IF e.iface THEN r.line ELSE devnum[e.port]]
        ELSE [rows |-> r.rows, line |-> pid]

Rows(what, garbage) ==
    FoldLeft(LAMBDA r, e : Visit(what, r, e), [rows |-> << >>, line |-> garbage],
             SelectSeq(Entries, LAMBDA e : plug[e.port] # NoDevice)).rows

(* The text parsed first may be anything; the numbers that could matter.     *)
Garbage == UNION {{d.vid, d.pid} : d \in Device}

(* sysfs_sn after each row: a device without serial number leaves the last.  *)
Shown(rows, garbage) ==
    LET sn[i \in 0 .. Len(rows)] ==
            IF i = 0 THEN garbage
            ELSE IF plug[rows[i].port].sn = NoSerial THEN sn[i - 1] ELSE plug[rows[i].port].sn
    IN  sn

\* MUTANT: as many characters are compared as the device's serial number has.
SnMatches_longer(sn, sysfs_sn) == IsPrefix(sysfs_sn, sn)

SnMatches(sn, sysfs_sn) == IsPrefix(sn, sysfs_sn)

-----------------------------------------------------------------------------
(* main: the command line.                                                   *)

Commands == {"request", "detach", "attach", "usbreset"}
Args == [cmd : Commands, by : {"-d"}, n : 0 .. MaxIndex, sn : {<< >>}]
        \cup [cmd : Commands, by : {"-s"}, n : {0}, sn : Serial]
        \cup [cmd : Commands, by : {"-i"}, n : {0}, sn : {<< >>}]

AtLeastOne(n) == IF n < 1 THEN 1 ELSE n

main(a) ==
    /\ pc = "idle" /\ nrun < MaxRun /\ nrun' = nrun + 1
    /\ arg' = a /\ moved' = FALSE
    /\ \/ a.by = "-d" /\ dev_index' = AtLeastOne(a.n) /\ pc' = "select"
       \/ a.by = "-s" /\ pc' = "convert" /\ UNCHANGED dev_index
       \/ a.by = "-i" /\ dev_index' = 0 /\ pc' = "net"
    /\ UNCHANGED <<hostVars, usb_dev, fd, devclass, outcome, nplug, listed, sent>>

Exit(how) == pc' = "exit" /\ outcome' = how

(* udb list: its rows; the node it prints is found as in                     *)
(* get_udb_ctrl_handle_from_usb.                                             *)
print_connected_list ==
    /\ pc = "idle" /\ nrun < MaxRun /\ nrun' = nrun + 1
    /\ \E g \in Garbage, gsn \in Serial : LET rows == Rows("list", g) IN
          listed' = [i \in DOMAIN rows |->
                        [id |-> Id(rows[i].port), sn |-> Shown(rows, gsn)[i]]]
    /\ moved' = FALSE
    /\ UNCHANGED <<hostVars, procVars, nplug, sent>>

(* -s: the number of the first row that matches, or of the last row. *)
convert_sn_to_index ==
    /\ pc = "convert"
    /\ \E g \in Garbage, gsn \in Serial :
       LET rows == Rows("select", g)
           sysfs_sn == Shown(rows, gsn)
           hits == {i \in DOMAIN rows : SnMatches(arg.sn, sysfs_sn[i])}
       IN  \/ rows = << >> /\ Exit("no device") /\ UNCHANGED dev_index
           \/ /\ rows # << >> /\ pc' = "select" /\ UNCHANGED outcome
              /\ dev_index' = AtLeastOne(IF hits = {} THEN Len(rows) ELSE Min(hits))
    /\ UNCHANGED <<hostVars, arg, usb_dev, fd, devclass, nplug, nrun, listed, moved, sent>>

DevAt(p) == [bus |-> Bus[p], dev |-> devnum[p],
             class |-> get_support_list_usbclass(plug[p].vid, plug[p].pid)]

(* A number beyond the list leaves usb_dev as it was: zero. *)
select_usb_dev_by_index ==
    /\ pc = "select"
    /\ \E g \in Garbage : LET rows == Rows("select", g) IN
          \/ rows = << >> /\ Exit("no device") /\ UNCHANGED usb_dev
          \/ /\ rows # << >> /\ pc' = "open" /\ UNCHANGED outcome
             /\ usb_dev' = IF dev_index \in DOMAIN rows
                           THEN DevAt(rows[dev_index].port) ELSE usb_dev
    /\ UNCHANGED <<hostVars, arg, dev_index, fd, devclass, nplug, nrun, listed, moved, sent>>

(* /dev/bus/usb/<bus>/<dev> *)
Usbfs(dev) == {p \in Port : plug[p] # NoDevice /\ Bus[p] = dev.bus /\ devnum[p] = dev.dev}

(* get_udb_ctrl_handle_from_usb: the video node if one is found, else usbfs,  *)
(* which must not have a driver.                                              *)
get_udb_ctrl_handle_from_usb ==
    /\ pc = "open"
    /\ LET i == get_v4l2_index(usb_dev.bus, usb_dev.dev) IN
       \/ /\ i # -1
          /\ fd' = NodeOwner(i) /\ devclass' = usb_dev.class
          /\ pc' = "act" /\ UNCHANGED outcome
       \/ Exit("cannot open") /\ UNCHANGED <<fd, devclass>>    \* gone, or no permission
       \/ \E p \in Usbfs(usb_dev) :
          /\ i = -1 /\ p \in bound
          /\ Exit("driver in use") /\ UNCHANGED <<fd, devclass>>
       \/ \E p \in Usbfs(usb_dev) :
          /\ i = -1 /\ p \notin bound
          /\ fd' = Id(p) /\ devclass' = usb_dev.class
          /\ pc' = "act" /\ UNCHANGED outcome
    /\ UNCHANGED <<hostVars, arg, dev_index, usb_dev, nplug, nrun, listed, moved, sent>>

(* get_udb_ctrl_handle_from_net: for an address that does not resolve it     *)
(* returns -1, which is true, and leaves udb_ctrl zero.  detach, attach and  *)
(* usbreset do not call it.                                                  *)
get_udb_ctrl_handle_from_net ==
    /\ pc = "net"
    /\ devclass' \in IF arg.cmd = "request" THEN {0, NET_CLASS_UDP} ELSE {0}
    /\ pc' = "act"
    /\ UNCHANGED <<hostVars, arg, dev_index, usb_dev, fd, outcome, nplug, nrun, listed, moved, sent>>

-----------------------------------------------------------------------------
(* The commands.                                                             *)

Alive(id) == id = Platform \/ \E p \in Port : plug[p] # NoDevice /\ Id(p) = id

\* MUTANT: whatever is not a network device is taken for a UVC device.
UvcTransfer_default == devclass # NET_CLASS_UDP

UvcTransfer == devclass = USB_CLASS_UVC

(* udb_ctrl_write and udb_ctrl_read with uvc_hal_write and uvc_hal_read: a    *)
(* request and its answer go to the file that is open; an unknown class sends *)
(* nothing (net_hal_write and net_hal_read belong to the protocol modules).   *)
udb_ctrl_write ==
    /\ pc = "act" /\ arg.cmd = "request"
    /\ sent' = IF UvcTransfer /\ Alive(fd) THEN fd ELSE Nobody
    /\ Exit("done")
    /\ UNCHANGED <<hostVars, arg, dev_index, usb_dev, fd, devclass, nplug, nrun, listed, moved>>

(* detach: through usbfs, and only when a video node is found.  open and the *)
(* ioctls may fail.                                                          *)
uvc_detach_kernel_driver ==
    /\ pc = "act" /\ arg.cmd = "detach" /\ usb_dev.class = USB_CLASS_UVC
    /\ LET i == get_v4l2_index(usb_dev.bus, usb_dev.dev) IN
       \/ i = -1 /\ Exit("not bound") /\ UNCHANGED <<bound, node>>
       \/ i # -1 /\ Exit("failed") /\ UNCHANGED <<bound, node>>
       \/ i # -1 /\ \E p \in Usbfs(usb_dev) : Disconnect(p) /\ Exit("done")
    /\ UNCHANGED <<plug, devnum, nextdev, arg, dev_index, usb_dev, fd, devclass, nplug, nrun,
                   listed, moved, sent>>

(* attach: USBDEVFS_CONNECT when no driver is bound. *)
uvc_attach_kernel_driver ==
    /\ pc = "act" /\ arg.cmd = "attach" /\ usb_dev.class = USB_CLASS_UVC
    /\ \/ Exit("failed") /\ UNCHANGED <<bound, node>>
       \/ \E p \in Usbfs(usb_dev) :
          /\ IF p \in bound THEN UNCHANGED <<bound, node>> ELSE Probe(p)
          /\ Exit("done")
    /\ UNCHANGED <<plug, devnum, nextdev, arg, dev_index, usb_dev, fd, devclass, nplug, nrun,
                   listed, moved, sent>>

(* detach() and attach() of anything but a UVC device do nothing. *)
detach_attach_other ==
    /\ pc = "act" /\ arg.cmd \in {"detach", "attach"} /\ usb_dev.class # USB_CLASS_UVC
    /\ Exit("done")
    /\ UNCHANGED <<hostVars, arg, dev_index, usb_dev, fd, devclass, nplug, nrun, listed, moved, sent>>

(* usbreset: the device keeps its number, the kernel binds its driver again. *)
usbreset ==
    /\ pc = "act" /\ arg.cmd = "usbreset"
    /\ Exit("done")
    /\ UNCHANGED <<hostVars, arg, dev_index, usb_dev, fd, devclass, nplug, nrun, listed, moved, sent>>

(* The process is gone, and its memory with it. *)
Gone ==
    /\ pc = "exit" /\ pc' = "idle"
    /\ arg' = NoArg /\ dev_index' = 1 /\ usb_dev' = NoDev /\ fd' = Nobody /\ devclass' = 0
    /\ outcome' = "none" /\ sent' = Nobody
    /\ UNCHANGED <<hostVars, nplug, nrun, listed, moved>>

Process == \/ print_connected_list \/ convert_sn_to_index \/ select_usb_dev_by_index
           \/ get_udb_ctrl_handle_from_usb \/ get_udb_ctrl_handle_from_net
           \/ udb_ctrl_write \/ uvc_detach_kernel_driver \/ uvc_attach_kernel_driver
           \/ detach_attach_other \/ usbreset \/ Gone \/ \E a \in Args : main(a)

Next == Process \/ \E p \in Port : Unplug(p) \/ \E d \in Device : PlugIn(p, d)

Spec == Init /\ [][Next]_vars

-----------------------------------------------------------------------------
IsSupported(p) == plug[p] # NoDevice /\ in_support_list(plug[p].vid, plug[p].pid)

(* `udb list` has one row for every supported device and no other: the       *)
(* stale `line` that stands for the ids of an interface's directory never    *)
(* counts.  A row shows the serial number of its device, or when that has    *)
(* none the one the row above shows (print_connected_list).                  *)
ListsDevices ==
    listed # Unlisted =>
        /\ {row.id : row \in Range(listed)} = {Id(p) : p \in {q \in Port : IsSupported(q)}}
        /\ Len(listed) = Cardinality({p \in Port : IsSupported(p)})
        /\ \A i \in DOMAIN listed : LET own == plug[listed[i].id.port].sn IN
              \/ listed[i].sn = own
              \/ own = NoSerial /\ (i = 1 \/ listed[i].sn = listed[i - 1].sn)

Selected == Usbfs(usb_dev)

(* While nothing is plugged or unplugged, `-d n` takes the device of row n   *)
(* of the list, and a number beyond the list takes none                      *)
(* (select_usb_dev_by_index).                                                *)
NumberSelects ==
    pc \in {"open", "act"} /\ arg.by = "-d" /\ listed # Unlisted =>
        IF dev_index \in DOMAIN listed THEN {Id(p) : p \in Selected} = {listed[dev_index].id}
        ELSE usb_dev = NoDev

(* `-s sn` takes a device whose serial number starts with sn, as long as     *)
(* there is one, with one exception: the first row when that device has no   *)
(* serial number, for it is compared with an uninitialised buffer            *)
(* (convert_sn_to_index; without such a device the last one is taken).       *)
SerialSelects ==
    pc \in {"open", "act"} /\ arg.by = "-s" /\ ~moved =>
        \A p \in Selected :
            \/ plug[p].sn # NoSerial /\ IsPrefix(arg.sn, plug[p].sn)
            \/ plug[p].sn = NoSerial /\ dev_index = 1
            \/ ~\E q \in Port : IsSupported(q) /\ plug[q].sn # NoSerial
                                /\ IsPrefix(arg.sn, plug[q].sn)

(* A node of a lower number has a longer link than the port's own node.      *)
Shadowed(p) == \E i \in 0 .. node[p] - 1 : HasNode(i) /\ Len(NodeLink(i)) > Len(LinkOf(p))

(* The name of port p, the end of a longer one behind it, reads as that of q *)
(* (1-1 and the 0 of 2-10 as 1-10).                                          *)
ReadsAs(p, q) == p # q /\ IsPrefix(Path[p], Path[q]) /\ Shadowed(p)


(* While nothing is plugged or unplugged, a request reaches the device that  *)
(* was selected and, but for the two exceptions of OpensSelected, no other;  *)
(* after `-d` with a number beyond the list, for which the node of another   *)
(* camera may have been opened, it reaches nobody (udb_ctrl_write).          *)
RequestReachesSelected ==
    sent # Nobody /\ ~moved =>
        \E p \in Selected :
            \/ sent = Id(p)
            \/ usb_dev.bus = usb_dev.dev
            \/ \E q \in Port : sent = Id(q) /\ ReadsAs(q, p)
=============================================================================
