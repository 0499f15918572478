------------------------------- MODULE Devices -------------------------------
(***************************************************************************)
(* The devices of device/device.c, which are objects with a count of how   *)
(* often they are open; the console of src/src/kservice.c and the input of *)
(* the shell (finsh/shell.c), which open devices.                          *)
(*                                                                         *)
(* Drivers are external: their initialization, opening and closing may     *)
(* fail, and they indicate what they receive from a handler.  No call      *)
(* protects a device from another: Exclusive keeps them apart.             *)
(***************************************************************************)
EXTENDS Objects

CONSTANTS
    Standalone,      \* devices with RT_DEVICE_FLAG_STANDALONE
    Failing,         \* devices whose driver may fail
    MaxOpen,         \* bound on the opens of a thread,
    MaxBytes         \*   on what a driver keeps, and on rx_sem

ASSUME DevicesAssumption ==
    /\ Standalone \subseteq Objs /\ Failing \subseteq Objs
    /\ MaxOpen \in Nat /\ MaxBytes \in Nat

VARIABLES
    activated,       \* devices with RT_DEVICE_FLAG_ACTIVATED
    open_flag,       \* [Objs -> SUBSET {"OPEN", "STREAM", "INT_RX"}]
    ref_count,
    rx_indicate,     \* devices whose rx_indicate is finsh_rx_ind
    opens,           \* history: [Threads -> [Objs -> how often it has it open]]
    running,         \* drivers that are open
    bytes,           \* what drivers received and nobody read
    console,         \* _console_device
    opened,          \* history: the device the console has open, or Nobody,
    robbed,          \*   devices it closed that it did not have open
    old_flag,        \* [Threads -> the flags rt_kprintf saved]
    input,           \* shell->device
    rx_sem           \* the value of shell->rx_sem

devices == <<activated, open_flag, ref_count, opens, running>>
shell   == <<rx_indicate, bytes, console, opened, robbed, old_flag, input, rx_sem>>
vars    == <<app, containers, pc, listings, devices, shell>>

Devs == {o \in Objs : Class[o] = "Device"}

Init ==
    /\ app \in Applications
    /\ ObjectsInit
    /\ activated = {} /\ running = {} /\ rx_indicate = {}
    /\ open_flag = [o \in Objs |-> {}]
    /\ ref_count = [o \in Objs |-> 0]
    /\ opens = [t \in Threads |-> [o \in Objs |-> 0]]
    /\ bytes = [o \in Objs |-> 0]
    /\ console = Nobody /\ opened = Nobody /\ robbed = {} /\ input = Nobody
    /\ old_flag = [t \in Threads |-> {}]
    /\ rx_sem = 0

\* Steps of finsh_set_device and rt_console_set_device, which are about an old
\* device besides the new one.
Swapping == {"swap", "quiet", "take", "indicate", "reopen", "console"}

\* A thread is not in a call on device d.
Away(t, d) ==
    /\ pc[t].obj # d
    /\ d \in {input, console} => {pc[t].at, pc[t].then} \cap Swapping = {}

\* No other thread is.
Exclusive(t, d) == \A u \in Threads \ {t} : Away(u, d)

-----------------------------------------------------------------------------
(* device.c.                                                               *)

\* rt_device_register: a name that is not taken, rt_object_init (Link follows); the
\* name is not looked up again, so that two calls may both register it ...
Register(t, d, n) ==
    /\ At(t, "ready") /\ d \in app.registers[t]
    /\ Found("Device", n) = Nobody
    /\ InitObject(t, d, n, "fields")
    /\ UNCHANGED <<devices, shell>>

\* ... and, when others can find the device already, its fields.
RegisterFields(t) ==
    /\ At(t, "fields") /\ Ready(t)
    /\ LET d == pc[t].obj
       IN /\ activated' = activated \ {d}
          /\ ref_count' = [ref_count EXCEPT ![d] = 0]
          /\ open_flag' = [open_flag EXCEPT ![d] = {}]
          /\ robbed' = robbed \ {d}
    /\ UNCHANGED <<app, containers, listings, opens, running, rx_indicate, bytes,
                   console, opened, old_flag, input, rx_sem>>

\* rt_device_unregister; nobody has the device open (the application's care).
Unregister(t, d) ==
    /\ At(t, "ready") /\ d \in app.registers[t]
    /\ Exclusive(t, d) /\ d \notin {console, input}
    /\ \A u \in Threads : opens[u][d] = 0
    /\ EndObject(t, d, "ready")
    /\ UNCHANGED <<devices, shell>>

\* Devices a thread can open: those it finds.
Findable(d) == \E n \in Names : Found("Device", n) = d

\* rt_device_init, and the begin of rt_device_open: the driver is initialized
\* once, and may fail.
Activate(t, d, label, then, failed) ==
    \/ /\ activated' = activated \cup {d}
       /\ Goto(t, label, d, then)
    \/ /\ d \in Failing \ activated
       /\ UNCHANGED activated /\ Goto(t, failed, d, "ready")

DeviceInit(t, d) ==
    /\ At(t, "ready") /\ d \in app.uses[t]
    /\ Exclusive(t, d) /\ Findable(d) /\ d \notin activated
    /\ Activate(t, d, "ready", "ready", "ready")
    /\ UNCHANGED <<app, containers, listings, open_flag, ref_count, opens, running, shell>>

\* rt_device_open by an application.
Open(t, d) ==
    /\ At(t, "ready") /\ d \in app.uses[t]
    /\ Exclusive(t, d) /\ Findable(d) /\ opens[t][d] < MaxOpen
    /\ Activate(t, d, "open", "ready", "ready")
    /\ UNCHANGED <<app, containers, listings, open_flag, ref_count, opens, running, shell>>

Flags(t) == IF pc[t].then = "swap" THEN {"INT_RX", "STREAM"}
            ELSE IF pc[t].then = "console" THEN {"STREAM"} ELSE {}

\* The device is a stand-alone device and open: -RT_EBUSY; so ends a call of
\* the driver that fails.
OpenRefused(t) ==
    /\ At(t, "open")
    /\ LET d == pc[t].obj
       IN \/ d \in Standalone /\ "OPEN" \in open_flag[d]
          \/ d \in Failing
    /\ IF pc[t].then = "console" THEN Return(t) ELSE Ready(t)
    /\ UNCHANGED <<app, containers, listings, devices, shell>>

\* The open of the driver, ...
OpenDriver(t) ==
    /\ At(t, "open")
    /\ LET d == pc[t].obj
       IN /\ ~(d \in Standalone /\ "OPEN" \in open_flag[d])
          /\ running' = running \cup {d}
          /\ open_flag' = [open_flag EXCEPT ![d] = Flags(t)]
          /\ Goto(t, "count", d, pc[t].then)
    /\ UNCHANGED <<app, containers, listings, activated, ref_count, opens, shell>>

\* Mutant: only the first open is counted.
CountFirst(t) ==
    /\ At(t, "count") /\ Return(t)
    /\ LET d == pc[t].obj
       IN /\ open_flag' = [open_flag EXCEPT ![d] = @ \cup {"OPEN"}]
          /\ ref_count' = [ref_count EXCEPT ![d] = 1]
          /\ opens' = IF pc[t].then = "ready" THEN [opens EXCEPT ![t][d] = @ + 1] ELSE opens
          /\ opened' = IF pc[t].then = "console" THEN d ELSE opened
    /\ UNCHANGED <<app, containers, listings, activated, running, rx_indicate, bytes,
                   console, robbed, old_flag, input, rx_sem>>

\* ... and the count of a device that is open now.
Count(t) ==
    /\ At(t, "count") /\ Return(t)
    /\ LET d == pc[t].obj
       IN /\ open_flag' = [open_flag EXCEPT ![d] = @ \cup {"OPEN"}]
          /\ ref_count' = [ref_count EXCEPT ![d] = @ + 1]
          /\ opens' = IF pc[t].then = "ready" THEN [opens EXCEPT ![t][d] = @ + 1] ELSE opens
          /\ opened' = IF pc[t].then = "console" THEN d ELSE opened
    /\ UNCHANGED <<app, containers, listings, activated, running, rx_indicate, bytes,
                   console, robbed, old_flag, input, rx_sem>>

\* The device a thread closes.
Closing(t) == CASE pc[t].then = "quiet"  -> input
                [] pc[t].then = "reopen" -> console
                [] OTHER                 -> pc[t].obj

\* rt_device_close counts, on the way to the close of the driver for the last;
\* of a device that is not open it does nothing.
Uncount(t, d, then) ==
    /\ ref_count' = [ref_count EXCEPT ![d] = IF @ > 0 THEN @ - 1 ELSE @]
    /\ IF ref_count[d] = 1 THEN Goto(t, "close", pc[t].obj, then)
       ELSE Goto(t, then, pc[t].obj, "ready")
    /\ UNCHANGED <<app, containers, listings, activated, open_flag, running, shell>>

Close(t, d) ==
    /\ At(t, "ready") /\ d \in app.uses[t]
    /\ Exclusive(t, d) /\ opens[t][d] > 0
    /\ opens' = [opens EXCEPT ![t][d] = @ - 1]
    /\ ref_count' = [ref_count EXCEPT ![d] = IF @ > 0 THEN @ - 1 ELSE @]
    /\ IF ref_count[d] = 1 THEN Goto(t, "close", d, "ready") ELSE UNCHANGED pc
    /\ UNCHANGED <<app, containers, listings, activated, open_flag, running, shell>>

\* ... which may fail: the device then stays open.
CloseDriver(t) ==
    /\ At(t, "close") /\ Return(t)
    /\ LET d == Closing(t)
       IN \/ /\ running' = running \ {d}
             /\ open_flag' = [open_flag EXCEPT ![d] = {}]
          \/ d \in Failing /\ UNCHANGED <<running, open_flag>>
    /\ UNCHANGED <<app, containers, listings, activated, ref_count, opens, shell>>

-----------------------------------------------------------------------------
(* The console.                                                            *)

\* rt_console_set_device: the old console is closed, if there is one, whether the
\* console has it open or not, ...
SetConsole(t, d) ==
    /\ At(t, "ready") /\ d \in app.consoles[t]
    /\ Exclusive(t, d) /\ Findable(d)
    /\ IF console = Nobody
       THEN /\ Goto(t, "reopen", d, "ready")
            /\ UNCHANGED <<app, containers, listings, devices, shell>>
       ELSE /\ Exclusive(t, console)
            /\ ref_count' = [ref_count EXCEPT ![console] = IF @ > 0 THEN @ - 1 ELSE @]
            /\ IF ref_count[console] = 1 THEN Goto(t, "close", d, "reopen")
               ELSE Goto(t, "reopen", d, "ready")
            /\ opened' = Nobody
            /\ robbed' = IF opened # console /\ ref_count[console] > 0
                         THEN robbed \cup {console} ELSE robbed
            /\ UNCHANGED <<app, containers, listings, activated, open_flag, opens, running,
                           rx_indicate, bytes, console, old_flag, input, rx_sem>>

\* ... the new one is opened ...
OpenConsole(t) ==
    /\ At(t, "reopen")
    /\ Activate(t, pc[t].obj, "open", "console", "console")
    /\ UNCHANGED <<app, containers, listings, open_flag, ref_count, opens, running, shell>>

\* ... and is the console, open or not.
NewConsole(t) ==
    /\ At(t, "console") /\ Ready(t)
    /\ console' = pc[t].obj
    /\ UNCHANGED <<app, containers, listings, devices, rx_indicate, bytes, opened,
                   robbed, old_flag, input, rx_sem>>

\* rt_kprintf and rt_kputs save the flags of the console, ...
Kprintf(t) ==
    /\ At(t, "ready") /\ app.prints[t] /\ console # Nobody
    /\ Exclusive(t, console)
    /\ old_flag' = [old_flag EXCEPT ![t] = open_flag[console]]
    /\ open_flag' = [open_flag EXCEPT ![console] = @ \cup {"STREAM"}]
    /\ Goto(t, "write", console, "ready")
    /\ UNCHANGED <<app, containers, listings, activated, ref_count, opens, running,
                   rx_indicate, bytes, console, opened, robbed, input, rx_sem>>

\* ... write, and put the flags back.
KprintfEnd(t) ==
    /\ At(t, "write") /\ Ready(t)
    /\ open_flag' = [open_flag EXCEPT ![console] = old_flag[t]]
    /\ old_flag' = [old_flag EXCEPT ![t] = {}]
    /\ UNCHANGED <<app, containers, listings, activated, ref_count, opens, running,
                   rx_indicate, bytes, console, opened, robbed, input, rx_sem>>

-----------------------------------------------------------------------------
(* The input of the shell.                                                 *)

\* finsh_set_device, a command of the shell: the new device is opened; ...
SetDevice(t, d) ==
    /\ At(t, "ready") /\ d \in app.inputs[t]
    /\ Exclusive(t, d) /\ Findable(d) /\ d # input
    /\ input # Nobody => Exclusive(t, input)
    /\ Activate(t, d, "open", "swap", "ready")
    /\ UNCHANGED <<app, containers, listings, open_flag, ref_count, opens, running, shell>>

\* ... the old one is closed ...
CloseOld(t) ==
    /\ At(t, "swap")
    /\ IF input = Nobody
       THEN /\ Goto(t, "take", pc[t].obj, "ready")
            /\ UNCHANGED <<app, containers, listings, devices, shell>>
       ELSE Uncount(t, input, "quiet") /\ UNCHANGED opens

\* ... and indicates no more; ...
Quiet(t) ==
    /\ At(t, "quiet") /\ Goto(t, "take", pc[t].obj, "ready")
    /\ rx_indicate' = rx_indicate \ {input}
    /\ UNCHANGED <<app, containers, listings, devices, bytes, console, opened,
                   robbed, old_flag, input, rx_sem>>

\* ... the line is cleared, and the new device is the shell's, ...
TakeDevice(t) ==
    /\ At(t, "take") /\ Goto(t, "indicate", pc[t].obj, "ready")
    /\ input' = pc[t].obj
    /\ UNCHANGED <<app, containers, listings, devices, rx_indicate, bytes, console,
                   opened, robbed, old_flag, rx_sem>>

\* Mutant: it does not indicate.
IndicateNot(t) ==
    /\ At(t, "indicate") /\ Ready(t)
    /\ UNCHANGED <<app, containers, listings, devices, shell>>

\* ... and indicates what it receives (rt_device_set_rx_indicate).
Indicate(t) ==
    /\ At(t, "indicate") /\ Ready(t)
    /\ rx_indicate' = rx_indicate \cup {pc[t].obj}
    /\ UNCHANGED <<app, containers, listings, devices, bytes, console, opened,
                   robbed, old_flag, input, rx_sem>>

\* A driver receives a byte; finsh_rx_ind releases the semaphore.
Receive(d) ==
    /\ d \in running /\ bytes[d] < MaxBytes
    /\ d \in rx_indicate => rx_sem < MaxBytes
    /\ bytes' = [bytes EXCEPT ![d] = @ + 1]
    /\ rx_sem' = IF d \in rx_indicate THEN rx_sem + 1 ELSE rx_sem
    /\ UNCHANGED <<app, containers, pc, listings, devices, rx_indicate, console,
                   opened, robbed, old_flag, input>>

\* finsh_getchar reads a byte of an open device, or nothing ...
Getchar(t) ==
    /\ At(t, "ready") /\ app.inputs[t] # {} /\ input # Nobody
    /\ IF bytes[input] > 0 /\ ref_count[input] > 0
       THEN bytes' = [bytes EXCEPT ![input] = @ - 1] /\ UNCHANGED pc
       ELSE Goto(t, "wait", Nobody, "ready") /\ UNCHANGED bytes
    /\ UNCHANGED <<app, containers, listings, devices, rx_indicate, console, opened,
                   robbed, old_flag, input, rx_sem>>

\* ... and then takes the semaphore, to read again.
Woken(t) ==
    /\ At(t, "wait") /\ rx_sem > 0 /\ Ready(t)
    /\ rx_sem' = rx_sem - 1
    /\ UNCHANGED <<app, containers, listings, devices, rx_indicate, bytes, console,
                   opened, robbed, old_flag, input>>

-----------------------------------------------------------------------------
DeviceStep(t) ==
    \/ RegisterFields(t) \/ OpenRefused(t) \/ OpenDriver(t) \/ Count(t)
    \/ CloseDriver(t) \/ OpenConsole(t) \/ NewConsole(t) \/ Kprintf(t) \/ KprintfEnd(t)
    \/ CloseOld(t) \/ Quiet(t) \/ TakeDevice(t) \/ Indicate(t)
    \/ Getchar(t) \/ Woken(t)
    \/ \E d \in Devs :
          \/ Unregister(t, d) \/ DeviceInit(t, d) \/ Open(t, d) \/ Close(t, d)
          \/ SetConsole(t, d) \/ SetDevice(t, d)
          \/ \E n \in Names : Register(t, d, n)

Next ==
    \/ \E t \in Threads :
          \/ /\ ObjectStep(t) \/ Command(t) \/ ListingStep(t)
             /\ UNCHANGED <<devices, shell>>
          \/ DeviceStep(t)
    \/ \E d \in Devs : Receive(d)

Spec == Init /\ [][Next]_vars

-----------------------------------------------------------------------------
(* Properties.                                                             *)

\* The opens of a device: those of threads, of the shell and of the console.
Holders(d) == MapThenSumSet(LAMBDA t : opens[t][d], Threads)
              + (IF input = d THEN 1 ELSE 0) + (IF opened = d THEN 1 ELSE 0)

\* When nobody is in a call on a device, its count is the number of its opens, or
\* less, once rt_console_set_device closed it as the old console although the open
\* of that had been refused; what is counted is open, registered, initialized and
\* has its driver open, and a stand-alone device is open once.
OpensAreCounted ==
    \A d \in Devs :
        (\A t \in Threads : Away(t, d)) =>
            /\ ref_count[d] <= Holders(d)
            /\ d \notin robbed => ref_count[d] = Holders(d)
            /\ ref_count[d] > 0 => /\ "OPEN" \in open_flag[d] /\ d \in running
                                   /\ d \in activated /\ Linked(d)
            /\ d \in Standalone => ref_count[d] <= 1

\* The shell does not wait for input beside bytes it could read, unless the console
\* closed its device.
InputIsHeard ==
    \A t \in Threads :
        At(t, "wait") /\ rx_sem = 0 /\ input \notin robbed => bytes[input] = 0
=============================================================================
