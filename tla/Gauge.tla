-------------------------------- MODULE Gauge --------------------------------
(* The two power chips on the I2C bus and what their drivers say to them: the
   BQ27220 fuel gauge (device/src/battery.rs, core/src/battery.rs) and the
   BQ25896 charger (device/src/charger.rs, core/src/charger.rs).  The operators
   are pure; InputTask.tla carries out one I2C transaction per step.

   The chips are outside the repository.  They are modelled from what the
   drivers rely on: keys open the gauge, a reset and a configuration update
   take effect some time after they are commanded, Data Memory is written only
   during an update, and the charger's watchdog puts its registers back. *)
EXTENDS Naturals, Sequences

CONSTANT Params \* number of entries of CEDV_PROFILE_1400MAH

ASSUME ParamsAssumption == Params \in Nat \ {0}

----------------------------------------------------------------------------
(* The gauge. *)

GaugeInit ==
    [access |-> "sealed", key |-> "none", initcomp |-> TRUE, cfg |-> "off",
     selected |-> 0, dm |-> {}]

(* A write to the gauge: a control command or half of a Data Memory write. *)
Told(g, c) ==
    CASE c.cmd = "UNSEAL_KEY1" -> [g EXCEPT !.key = "unseal"]
      [] c.cmd = "UNSEAL_KEY2" /\ g.key = "unseal" /\ g.access = "sealed" ->
            [g EXCEPT !.access = "unsealed", !.key = "none"]
      [] c.cmd = "FULL_ACCESS_KEY" /\ g.access = "unsealed" ->
            IF g.key = "full"
            THEN [g EXCEPT !.access = "full", !.key = "none"]
            ELSE [g EXCEPT !.key = "full"]
      [] c.cmd = "RESET" /\ g.access = "full" ->
            [g EXCEPT !.initcomp = FALSE, !.cfg = "off", !.selected = 0]
      [] c.cmd = "ENTER_CFG_UPDATE" /\ g.access = "full" ->
            [g EXCEPT !.cfg = "entering"]
      [] c.cmd = "EXIT_CFG_UPDATE_REINIT" /\ g.cfg = "on" ->
            [g EXCEPT !.cfg = "leaving"]
      [] c.cmd = "SEALED" -> [g EXCEPT !.access = "sealed", !.key = "none"]
      [] c.cmd = "SELECT" /\ g.cfg = "on" -> [g EXCEPT !.selected = c.param]
      [] c.cmd = "SUM" /\ g.cfg = "on" /\ g.selected = c.param ->
            [g EXCEPT !.dm = @ \cup {c.param}]
      [] OTHER -> g

(* What the gauge does in its own time. *)
Unsettled(g) == ~g.initcomp \/ g.cfg \in {"entering", "leaving"}
Settled(g) ==
    [g EXCEPT !.initcomp = TRUE,
              !.cfg = CASE @ = "entering" -> "on"
                        [] @ = "leaving" -> "off"
                        [] OTHER -> @]

(* parse_operation_status(): the two bits the driver polls. *)
OperationStatus(g) ==
    [initcomp |-> g.initcomp, cfgupdate |-> g.cfg \in {"on", "leaving"}]

(* Every parameter in place, and the gauge closed again. *)
Provisioned(g) ==
    /\ g.dm = 1..Params
    /\ g.access = "sealed"
    /\ g.cfg = "off"
    /\ g.initcomp

----------------------------------------------------------------------------
(* The driver of the gauge: what each operation says to it, in order. *)

Control(cmd) == [step |-> "write", cmd |-> cmd, param |-> 0]
Until(bit, value) == [step |-> "until", bit |-> bit, value |-> value]
Read == [step |-> "read"]

(* wait_initcomp(), wait_cfgupdate_set() and wait_cfgupdate_clear().  With the
   second one's test turned round the profile is written too early. *)
WaitInitcomp == Until("initcomp", TRUE)
WaitCfgUpdateClear == Until("cfgupdate", FALSE)
WaitCfgUpdateTurned == Until("cfgupdate", FALSE)
WaitCfgUpdateSet == Until("cfgupdate", TRUE)

(* write_dm() for every entry of the profile: the address and data, then the
   checksum that makes the gauge take them. *)
ProfileWrites ==
    [i \in 1..(2 * Params) |->
        [step |-> "write", cmd |-> IF i % 2 = 1 THEN "SELECT" ELSE "SUM",
         param |-> (i + 1) \div 2]]

(* provision() *)
ProvisionSteps ==
    << Control("UNSEAL_KEY1"), Control("UNSEAL_KEY2"),
       Control("FULL_ACCESS_KEY"), Control("FULL_ACCESS_KEY"),
       Control("RESET"), WaitInitcomp,
       Control("ENTER_CFG_UPDATE"), WaitCfgUpdateSet >>
    \o ProfileWrites
    \o << Control("EXIT_CFG_UPDATE_REINIT"), WaitCfgUpdateClear,
          Control("SEALED") >>

(* level(), charge_state() and diag() read one register and six: one read
   stands for each of them. *)
GaugeSteps(op) == IF op = "init" THEN ProvisionSteps ELSE << Read >>

----------------------------------------------------------------------------
(* The charger: the three register fields the driver touches. *)

ChargerInit == [watchdog |-> TRUE, longPress |-> TRUE, shipped |-> FALSE]

(* The watchdog expires: every register is back at its default. *)
Reverted(c) == [c EXCEPT !.watchdog = TRUE, !.longPress = TRUE]

(* disable_watchdog() and disable_long_press_reset() clear a field that a read
   has shown set; shutdown() sets BATFET_DIS in the value it has read, and the
   chip ignores it on USB. *)
Cleared(c, field) == [c EXCEPT ![field] = FALSE]
Shipped(c, seen, usb) ==
    [c EXCEPT !.longPress = seen.longPress, !.shipped = ~usb]
=============================================================================
