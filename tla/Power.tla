------------------------------- MODULE Power -------------------------------
(***************************************************************************)
(* The power gate: the policy (dotagent-core/src/power.rs) and the reading  *)
(* of the machine (dotagent/src/power.rs, the sysfs walk).  A tick takes    *)
(* one reading and judges every due schedule by it, while the charger and   *)
(* the batteries go on changing.                                            *)
(*                                                                          *)
(* A supply is [kind, online, scope, capacity], each field as it was read:  *)
(* Unread where it could not be.  The directory lists them in any order.    *)
(***************************************************************************)
EXTENDS Integers, Sequences, FiniteSets, SequencesExt

CONSTANTS
    Supplies,        \* what the kernel may report
    PowerConfigs,    \* [power]: [on_battery, min_battery_percent]
    Overrides,       \* on_battery of each schedule: "none" where it says nothing
    MaxReadings      \* bound: ticks

ASSUME PowerAssumption ==
    /\ MaxReadings \in Nat /\ IsFiniteSet(Supplies)
    /\ Supplies \subseteq [kind : STRING, online : -1 .. 1, scope : STRING, capacity : -1 .. 255]
    /\ PowerConfigs \subseteq [on_battery : {"Run", "Defer"}, min_battery_percent : Nat]

VARIABLES
    supply,    \* the directory, in its order
    power_cfg,
    gate,      \* PowerGate of the tick
    readings,
    judged     \* history: the tick's schedules, the directory it read, and the schedules it held back

powerVars == <<supply, power_cfg, gate, readings, judged>>

Unread == -1
Ac == [is |-> "Ac", percent |-> Unread]
Unknown == [is |-> "Unknown", percent |-> Unread]
Battery(p) == [is |-> "Battery", percent |-> p]

-----------------------------------------------------------------------------
(* Operators.                                                              *)

\* Neither mains nor an unknown source holds anything back, and a charge that is not known is not low.
should_defer(source, policy, min) ==
    /\ source.is = "Battery"
    /\ policy = "Defer" \/ (source.percent # Unread /\ min > 0 /\ source.percent < min)

\* One pass over the directory: what the chargers say, and the first charge of a battery of the machine.
Seen(acc, s) ==
    CASE s.kind = "Mains" /\ s.online = 1 -> [acc EXCEPT !.mains = 1]
      [] s.kind = "Mains" /\ s.online = 0 /\ acc.mains = Unread -> [acc EXCEPT !.mains = 0]
      [] s.kind = "Battery" /\ acc.percent = Unread /\ s.scope # "Device" -> [acc EXCEPT !.percent = s.capacity]
      [] OTHER -> acc

Scan(dir) ==
    LET found[n \in 0 .. Len(dir)] ==
            IF n = 0 THEN [mains |-> Unread, percent |-> Unread] ELSE Seen(found[n - 1], dir[n])
    IN  found

classify_supplies(dir) ==
    LET found == Scan(dir)[Len(dir)]
    IN  CASE found.mains = Unread -> Unknown [] found.mains = 1 -> Ac [] OTHER -> Battery(found.percent)

\* Mutant: the section alone decides whether to look.
would_probe_by_config(cfg, overrides) == cfg.on_battery # "Run" \/ cfg.min_battery_percent > 0

\* Nothing is read where nothing could be held back.
would_probe(cfg, overrides) ==
    cfg.on_battery # "Run" \/ cfg.min_battery_percent > 0 \/ \E o \in overrides : o \notin {"none", "Run"}

PowerGate(source, cfg) == [source |-> source, on_battery |-> cfg.on_battery, min |-> cfg.min_battery_percent]

\* A schedule's own word before the section's; the floor is for all of them.
defers(g, override) == should_defer(g.source, IF override = "none" THEN g.on_battery ELSE override, g.min)

-----------------------------------------------------------------------------
PowerInit ==
    /\ supply = <<>>
    /\ power_cfg \in PowerConfigs
    /\ gate = PowerGate(Unknown, power_cfg) /\ readings = 0
    /\ judged = [of |-> {}, dir |-> <<>>, held |-> {}]

\* A charger goes in or out, a battery is fitted, a mouse is paired.
Rewire ==
    /\ readings < MaxReadings
    /\ \/ \E s \in Supplies \ ToSet(supply) : supply' = Append(supply, s)
       \/ \E i \in DOMAIN supply : supply' = RemoveAt(supply, i)
    /\ UNCHANGED <<power_cfg, gate, readings, judged>>

\* The tick begins: one reading for all of it.
detect(overrides) ==
    /\ readings < MaxReadings
    /\ readings' = readings + 1
    /\ LET source == IF would_probe(power_cfg, overrides) THEN classify_supplies(supply) ELSE Unknown
       IN  /\ gate' = PowerGate(source, power_cfg)
           /\ judged' = [of |-> overrides, dir |-> supply, held |-> {o \in overrides : defers(gate', o)}]
    /\ UNCHANGED <<supply, power_cfg>>

PowerNext == Rewire \/ \E O \in SUBSET Overrides : detect(O)

PowerSpec == PowerInit /\ [][PowerNext]_powerVars

-----------------------------------------------------------------------------
(* Properties.                                                             *)

Chargers(n) == \E i \in DOMAIN judged.dir : judged.dir[i].kind = "Mains" /\ judged.dir[i].online = n
Unplugged == Chargers(0) /\ ~Chargers(1)
AsksToWait(o) == o = "Defer" \/ (o = "none" /\ power_cfg.on_battery = "Defer")

\* A run is held back only where some charger says that it is out and none that it is in, whatever
\* could not be read and in whatever order; and then either by a policy, or by a charge that some
\* battery of the machine, not of a mouse, reports below the floor (classify_supplies, should_defer).
HeldForCause ==
    \A o \in judged.held :
        /\ Unplugged
        /\ \/ AsksToWait(o)
           \/ \E i \in DOMAIN judged.dir :
                 /\ judged.dir[i].kind = "Battery" /\ judged.dir[i].scope # "Device"
                 /\ judged.dir[i].capacity \in 0 .. power_cfg.min_battery_percent - 1

\* No word of a schedule is lost because nobody looked: what asks to wait on battery waits whenever the
\* chargers are out, also where the section says nothing (would_probe, defers).
AskedIsHeld == Unplugged => \A o \in judged.of : AsksToWait(o) => o \in judged.held

\* The gate of a tick, of classify_supplies, would_probe and should_defer.
PowerInv == HeldForCause /\ AskedIsHeld
=============================================================================
