-------------------------------- MODULE A4wp --------------------------------
(***************************************************************************)
(* A4wpService.java: the watch as a wireless power receiver (PRU).  A      *)
(* charging pad (PTU) connects over GATT, reads the static parameters and  *)
(* writes the PRU control characteristic to switch the output on or off.   *)
(* While no pad is connected the chip looks for one ("power apply"), with  *)
(* short beacons when the battery needs charging and long ones otherwise.  *)
(*                                                                         *)
(* Four threads run its handlers: the GATT callbacks, the chip's           *)
(* callbacks, those of the battery monitor (WBC) and the main thread.      *)
(* They share the fields without a lock, except that                       *)
(* initiateDisconnection is synchronized.  A handler is a list of steps;   *)
(* a step is one access to shared state or one call of the chip.           *)
(***************************************************************************)
EXTENDS Naturals, Sequences

CONSTANTS
  A4Devices,   \* GATT clients, pads or not
  A4Configs    \* what is explored: the threads that run handlers, a bound on the
               \* handlers, and whether the service is up at the beginning

A4Threads == {"gatt", "chip", "wbc", "main"}

ASSUME A4Assumption ==
  /\ A4Devices \subseteq Nat \ {0}
  /\ A4Configs \subseteq [threads : SUBSET A4Threads, calls : Nat, up : BOOLEAN]

VARIABLES
  a4Config,
  a4,        \* the service object: up (between onCreate and onDestroy), connected (mState),
             \* device (mDevice, 0 for null), lock (mWakeLock)
  a4Static,  \* static fields that are TRUE: "discing" (mDiscInitiated), "complete"
             \* (mChargeComplete), "output" (mOutputControl), "port" (isChargePortSet),
             \* "boot" (mWipowerBoot)
  a4Chip,    \* bound (is WipowerManager's mService set?), apply ("off", "short" or "long"),
             \* charging, data (data notifications)
  a4Todo,    \* for each thread, what is left of its handler
  a4Peer,    \* the client whose request the GATT thread handles
  a4World,   \* linked: the clients connected; told: those that last switched the output on;
             \* advertised: is onStartSuccess still to come?
  a4Calls,
  a4Past     \* history: what happened out of turn

a4Vars == <<a4Config, a4, a4Static, a4Chip, a4Todo, a4Peer, a4World, a4Calls, a4Past>>

\* Before the first onCreate, or after onWipowerReady.
A4Init ==
  /\ a4Config \in A4Configs
  /\ LET up == a4Config.up
     IN  /\ a4 = [up |-> up, connected |-> FALSE, device |-> 0, lock |-> FALSE]
         /\ a4Static = {"complete"} \cup (IF up THEN {"boot"} ELSE {})
         /\ a4Chip = [bound |-> up, apply |-> IF up THEN "long" ELSE "off",
                      charging |-> FALSE, data |-> FALSE]
         /\ a4World = [linked |-> {}, told |-> {}, advertised |-> up]
  /\ a4Todo = [t \in A4Threads |-> <<>>] /\ a4Peer = 0
  /\ a4Calls = 0 /\ a4Past = {}

A4Has(t, steps) == \E k \in DOMAIN a4Todo[t] : a4Todo[t][k] \in steps
A4Idle(t) == a4Todo[t] = <<>>
A4Odd(what) == a4Past \cap what # {}
-----------------------------------------------------------------------------
\* The handlers.  "mode" reads mChargeComplete and becomes "short" or "long";
\* a step that begins with "if" decides whether the steps after it are taken.
\* "off" and then "mode" is enablePowerApply(false, ...), enablePowerApply(true, ...).

\* onCharacteristicReadRequest of the static parameters.
A4StaticRead == <<"off", "device", "connected", "dataOn">>

\* Mutant: output control survives the connection.
A4DisconnectedKeepsOutput ==
  IF a4Peer' = a4.device
  THEN <<"disconnected", "discingOff", "dataOff", "stop", "off", "mode", "unlock",
         "forget", "portOff">>
  ELSE <<"portOff">>

\* onConnectionStateChange, STATE_DISCONNECTED.
A4Disconnected ==
  IF a4Peer' = a4.device
  THEN <<"disconnected", "discingOff", "outputOff", "dataOff", "stop", "off", "mode", "unlock",
         "forget", "portOff">>
  ELSE <<"portOff">>

\* processPruControl.
A4Control(enable) ==
  IF enable THEN <<"lock", "outputOn">> ELSE <<"stop", "portOff", "outputOff">>

\* Mutant: the pad's state is tested before mChargeComplete is set.
A4ChargingRequiredLate(required) ==
  IF required THEN <<"off", "ifDisconnected", "short", "completeOff">>
              ELSE <<"off", "ifDisconnected", "long", "completeOn">>

\* onWbcEventUpdate, WBC_EVENT_TYPE_CHARGING_REQUIRED_STATUS.
A4ChargingRequired(required) ==
  IF required THEN <<"off", "completeOff", "ifDisconnected", "short">>
              ELSE <<"off", "completeOn", "ifDisconnected", "long">>

\* initiateDisconnection.
A4InitiateDisconnection ==
  <<"enter", "ifConnected", "ifDevice", "discingOn", "cancel", "off", "mode", "leave">>

\* chkDynParamsAndStartCharging: is the rectifier voltage high enough, and is
\* the coupling weak (charge port on, hardly any current)?
A4Data(high, weak) ==
  CASE high /\ weak  -> <<"ifNoPort", "ifOutput", "start", "portOn", "ifPort", "start">>
    [] high /\ ~weak -> <<"ifNoPort", "ifOutput", "start", "portOn">>
    [] ~high /\ weak -> <<"ifPort", "start">>
    [] OTHER -> <<>>
-----------------------------------------------------------------------------
A4Run(t, steps) ==
  /\ t \in a4Config.threads /\ a4Calls < a4Config.calls /\ a4Calls' = a4Calls + 1
  /\ A4Idle(t) /\ a4Todo' = [a4Todo EXCEPT ![t] = steps]
  /\ UNCHANGED a4Config

A4Flag(if, what) == a4Past' = IF if THEN a4Past \cup {what} ELSE a4Past

\* Bluetooth is on again: onCreate and onStartCommand of a new service.  The
\* chip has lost its state; static fields keep their values.  A wake lock that
\* a handler took after onDestroy is the old object's: nobody releases it.
A4Start ==
  /\ ~a4.up /\ \A t \in A4Threads : A4Idle(t)
  /\ A4Run("main", <<"ifBoot", "mode", "unlock">>)
  /\ a4' = [up |-> TRUE, connected |-> FALSE, device |-> 0, lock |-> FALSE]
  /\ a4Chip' = [bound |-> a4Chip.bound, apply |-> "off", charging |-> FALSE, data |-> FALSE]
  /\ \E complete \in BOOLEAN :
       a4Static' = (a4Static \ {"complete"}) \cup (IF complete THEN {"complete"} ELSE {})
  /\ a4World' = [linked |-> {}, told |-> {}, advertised |-> TRUE]
  /\ a4Past' = a4Past \cup (IF a4Static \cap {"discing", "output", "port"} # {}
                            THEN {"carried"} ELSE {})
                     \cup (IF a4.lock THEN {"leaked"} ELSE {})
  /\ UNCHANGED a4Peer

\* Bluetooth is off: onDestroy.  No callback comes any more.
A4Destroy ==
  /\ a4.up /\ A4Run("main", <<"unlock", "outputOff", "portOff">>)
  /\ a4' = [a4 EXCEPT !.up = FALSE]
  /\ a4World' = [linked |-> {}, told |-> {}, advertised |-> FALSE]
  /\ UNCHANGED <<a4Static, a4Chip, a4Peer, a4Past>>

\* On the main thread: power is applied without asking for mState.
A4ApplyOnMain(steps) ==
  /\ a4.up /\ A4Run("main", steps)
  /\ A4Flag(a4.connected \/ A4Has("gatt", {"connected"}), "overtaken")
  /\ UNCHANGED <<a4, a4Static, a4Peer>>

\* onServiceConnected sets mService and calls onWipowerReady, if the service,
\* whose first onCreate asked for the connection, still listens.
A4Ready ==
  /\ ~a4Chip.bound /\ a4Chip' = [a4Chip EXCEPT !.bound = TRUE]
  /\ \/ A4ApplyOnMain(<<"off", "mode", "bootOn">>)
     \/ /\ ~a4.up /\ a4Calls > 0 /\ A4Run("main", <<>>)
        /\ UNCHANGED <<a4, a4Static, a4Peer, a4Past>>
  /\ UNCHANGED a4World

A4Advertised ==
  /\ a4World.advertised /\ a4World' = [a4World EXCEPT !.advertised = FALSE]
  /\ A4ApplyOnMain(<<"off", "mode">>)
  /\ UNCHANGED a4Chip

A4Request(d) == a4.up /\ a4Peer' = d /\ UNCHANGED <<a4, a4Static, a4Chip>>

\* A client that reads or writes has connected before.
A4Read(d) ==
  /\ ~a4.connected /\ A4Request(d) /\ A4Run("gatt", A4StaticRead)
  /\ a4World' = [a4World EXCEPT !.linked = @ \cup {d}]
  /\ A4Flag(a4.device \notin {0, d}, "stolen")

\* onDescriptorWriteRequest: the alerts are switched on or off, by whoever
\* writes; that device is the one that counts from now on.
A4Subscribe(d) ==
  /\ A4Request(d) /\ A4Run("gatt", <<"device">>)
  /\ a4World' = [a4World EXCEPT !.linked = @ \cup {d}]
  /\ A4Flag(a4.device \notin {0, d}, "stolen")

A4Write(d, enable) ==
  /\ A4Request(d) /\ A4Run("gatt", A4Control(enable))
  /\ a4World' = [a4World EXCEPT !.linked = @ \cup {d},
                                !.told = IF enable THEN @ \cup {d} ELSE @ \ {d}]
  /\ A4Flag(enable /\ d # a4.device, "stranger")

A4LinkLost(d) ==
  /\ d \in a4World.linked
  /\ A4Request(d) /\ A4Run("gatt", A4Disconnected)
  /\ a4World' = [a4World EXCEPT !.linked = @ \ {d}, !.told = @ \ {d}]
  /\ UNCHANGED a4Past

A4Callback(t, steps) ==
  a4.up /\ A4Run(t, steps) /\ UNCHANGED <<a4, a4Static, a4Chip, a4Peer, a4World, a4Past>>

\* onWipowerData comes when data notifications are on.
A4OnData(high, weak) == a4Chip.data /\ A4Callback("chip", A4Data(high, weak))

\* onPowerApply(OFF), and the battery monitor's report that the pad is gone.
A4PowerOff  == a4Chip.bound /\ A4Callback("chip", A4InitiateDisconnection)
A4NoPad     == A4Callback("wbc", A4InitiateDisconnection)
A4Battery(required) == A4Callback("wbc", A4ChargingRequired(required))
-----------------------------------------------------------------------------
A4Tests == {"ifNoPort", "ifOutput", "ifPort", "ifDisconnected", "ifBoot", "ifConnected", "ifDevice"}

A4Holds(x) ==
  CASE x = "ifNoPort" -> "port" \notin a4Static  [] x = "ifOutput" -> "output" \in a4Static
    [] x = "ifPort"   -> "port" \in a4Static      [] x = "ifBoot"   -> "boot" \in a4Static
    [] x = "ifConnected" -> a4.connected /\ "discing" \notin a4Static
    [] x = "ifDisconnected" -> ~a4.connected      [] x = "ifDevice" -> a4.device # 0

\* What is left of the handler when the decision x is negative.
A4Else(x, rest) ==
  CASE x \in {"ifDisconnected", "ifPort"}  -> <<>>
    [] x \in {"ifConnected", "ifDevice"} -> <<"leave">>
    [] x = "ifBoot"   -> <<"unlock">>
    [] x = "ifNoPort" -> Tail(Tail(Tail(rest)))
    [] x = "ifOutput" -> Tail(Tail(rest))

A4Rest(t, x) ==
  LET rest == Tail(a4Todo[t])
  IN  CASE x \in A4Tests -> IF A4Holds(x) THEN rest ELSE A4Else(x, rest)
        [] x = "mode" -> [a4Todo[t] EXCEPT ![1] = IF "complete" \in a4Static THEN "long" ELSE "short"]
        \* cancelConnection(null) throws; the lock is released
        [] x = "cancel" /\ a4.device = 0 -> <<"leave">>
        [] OTHER -> rest

\* Is the other thread inside initiateDisconnection?
A4Entered(t) ==
  \E u \in {"chip", "wbc"} \ {t} :
    ~A4Idle(u) /\ a4Todo[u][Len(a4Todo[u])] = "leave" /\ Head(a4Todo[u]) # "enter"

A4Raised(x) ==
  CASE x = "discingOn" -> {"discing"} [] x = "completeOn" -> {"complete"} [] x = "bootOn" -> {"boot"}
    [] x = "outputOn"  -> {"output"}  [] x = "portOn" -> {"port"}         [] OTHER -> {}
A4Lowered(x) ==
  CASE x = "discingOff" -> {"discing"} [] x = "completeOff" -> {"complete"}
    [] x = "outputOff"  -> {"output"}  [] x = "portOff" -> {"port"}       [] OTHER -> {}

A4Fields(x) ==
  /\ a4Static' = (a4Static \cup A4Raised(x)) \ A4Lowered(x)
  /\ a4' = CASE x = "connected" -> [a4 EXCEPT !.connected = TRUE]
             [] x = "disconnected" -> [a4 EXCEPT !.connected = FALSE]
             [] x = "device" -> [a4 EXCEPT !.device = a4Peer]
             [] x = "forget" -> [a4 EXCEPT !.device = 0]
             [] x = "lock"   -> [a4 EXCEPT !.lock = TRUE]
             [] x = "unlock" -> [a4 EXCEPT !.lock = FALSE]
             [] OTHER -> a4

\* A call of WipowerManager, which does nothing while mService is null.
A4ChipCall(x) ==
  a4Chip' = IF ~a4Chip.bound THEN a4Chip
            ELSE CASE x \in {"off", "short", "long"} -> [a4Chip EXCEPT !.apply = x]
                   [] x = "start" -> [a4Chip EXCEPT !.charging = TRUE]
                   [] x = "stop"  -> [a4Chip EXCEPT !.charging = FALSE]
                   [] x \in {"dataOn", "dataOff"} -> [a4Chip EXCEPT !.data = (x = "dataOn")]
                   [] OTHER -> a4Chip

A4Withdrawal == {"stop", "portOff", "outputOff"}

\* What is out of turn when thread t takes the step x: another thread is past
\* a test or a read that x makes wrong.
A4OutOfTurn(t, x) ==
  LET others == A4Threads \ {t}
  IN  {f \in {"stale", "overtaken", "late", "crossed"} :
        CASE f = "stale" ->        \* the mode that another thread is about to apply
               /\ x \in {"completeOn", "completeOff"}
               /\ \E u \in others : A4Has(u, {"short", "long"}) /\ (a4.connected => u # "gatt")
          [] f = "overtaken" ->    \* power is applied under a pad that has just connected
               \/ x = "connected" /\ \E u \in others :
                    A4Has(u, {"mode", "short", "long"}) /\ ~A4Has(u, {"ifConnected", "ifDisconnected"})
               \/ x \in {"short", "long"} /\ A4Has("gatt", {"connected"})
          [] f = "late" ->         \* the output is withdrawn while charging is being started
               \/ x \in A4Withdrawal /\ A4Has("chip", {"start", "portOn"})
               \/ x = "start" /\ A4Has("gatt", A4Withdrawal)
          [] f = "crossed" ->      \* both sides disconnect
               x = "disconnected" /\ \E u \in others :
                 A4Has(u, {"discingOn", "cancel"}) /\ ~A4Has(u, {"ifConnected"})}

A4Step(t) ==
  /\ ~A4Idle(t)
  /\ LET x == Head(a4Todo[t])
     IN  /\ x = "enter" => ~A4Entered(t)
         /\ a4Todo' = [a4Todo EXCEPT ![t] = A4Rest(t, x)]
         /\ A4Fields(x) /\ A4ChipCall(x)
         /\ a4Past' = a4Past \cup A4OutOfTurn(t, x)
  /\ UNCHANGED <<a4Config, a4Peer, a4World, a4Calls>>

A4Next ==
  \/ A4Start \/ A4Destroy \/ A4Ready \/ A4Advertised \/ A4PowerOff \/ A4NoPad
  \/ \E d \in A4Devices : A4Read(d) \/ A4Subscribe(d) \/ A4LinkLost(d)
  \/ \E d \in A4Devices, enable \in BOOLEAN : A4Write(d, enable)
  \/ \E high \in BOOLEAN, weak \in BOOLEAN : A4OnData(high, weak)
  \/ \E required \in BOOLEAN : A4Battery(required)
  \/ \E t \in A4Threads : A4Step(t)

A4Spec == A4Init /\ [][A4Next]_a4Vars
-----------------------------------------------------------------------------
A4TypeOK ==
  /\ a4.device \in {0} \cup A4Devices
  /\ a4Static \subseteq {"discing", "complete", "output", "port", "boot"}
  /\ a4Chip.apply \in {"off", "short", "long"}
  /\ a4World.told \subseteq a4World.linked /\ a4World.linked \subseteq A4Devices

A4Quiet == a4.up /\ \A t \in A4Threads : A4Idle(t)

(***************************************************************************)
(* When all is handled, the chip charges only while the pad it serves has  *)
(* its output switched on, and isChargePortSet, which keeps charging from  *)
(* being started again, is set only while the chip charges.  Excepted:     *)
(* onWipowerData that is past its tests when the pad withdraws ("late");   *)
(* a control write of another client than mDevice, whose disconnection     *)
(* resets nothing ("stranger"); mDevice overwritten by another client      *)
(* ("stolen"); static fields set by a handler that ends after onDestroy    *)
(* ("carried").                                                            *)
(***************************************************************************)
ChargesAsTold ==
  A4Quiet =>
    \/ /\ a4Chip.charging => a4.device \in a4World.told
       /\ "port" \in a4Static => a4Chip.charging
    \/ A4Odd({"late", "stranger", "stolen", "carried"})

(***************************************************************************)
(* When all is handled and the chip is ready,                              *)
(*  - without a pad the chip looks for one in the way mChargeComplete asks *)
(*    for, though onWbcEventUpdate and onConnectionStateChange each write  *)
(*    one of mState and mChargeComplete and read the other without a lock; *)
(*    only a mode read before mChargeComplete changed is applied ("stale");*)
(*  - with one it does not, unless a disconnection is under way or a       *)
(*    handler that does not ask for mState applied power ("overtaken");    *)
(*  - the object's wake lock is held for a client that is there to release *)
(*    it, unless a "stranger" took it; this is not claimed of the lock of  *)
(*    an earlier object, taken after its onDestroy ("leaked");             *)
(*  - a disconnection that was initiated is still to come, so that the     *)
(*    next one can be initiated too, unless the two sides disconnected at  *)
(*    once ("crossed") or Bluetooth went off meanwhile ("carried").        *)
(***************************************************************************)
PowerSettles ==
  A4Quiet /\ a4Chip.bound /\ "boot" \in a4Static =>
    /\ ~a4.connected => \/ a4Chip.apply = IF "complete" \in a4Static THEN "long" ELSE "short"
                        \/ A4Odd({"stale"})
    /\ a4.connected => a4Chip.apply = "off" \/ "discing" \in a4Static \/ A4Odd({"overtaken"})
    /\ a4.lock => a4.device \in a4World.linked \/ A4Odd({"stranger"})
    /\ "discing" \in a4Static => a4.connected \/ A4Odd({"crossed", "carried"})
=============================================================================
