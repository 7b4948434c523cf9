----------------------------- MODULE KeyReports -----------------------------
(***************************************************************************)
(* main/main.c and macropad_hid.c: from the pins to the keyboard report    *)
(* the host holds, in USB mode.                                            *)
(*                                                                         *)
(* The input task scans the keys one by one against one reading of the     *)
(* clock, reports what is pressed, and changes the layer on encoder taps.  *)
(* The task of the web server may change the layer as well: set_active_    *)
(* layer runs in both, without a lock, over the same s_active_layer and    *)
(* s_key_pressed.  A key's s_key_pressed is the stable level of its        *)
(* debouncer, stored right after it.  At power-up the debouncers take over *)
(* what the pins read, and no report is sent.                              *)
(***************************************************************************)
EXTENDS Naturals, FiniteSets

CONSTANTS KeyCount,      \* MACRO_KEY_COUNT
          Layers,        \* 0 .. MACRO_LAYER_COUNT - 1
          Keymap,        \* g_macro_keymap_layers: [Layers -> [Keys -> actions]]
          Rollover,      \* key codes in a report
          DebounceTicks, \* DEBOUNCE_MS
          ConsumerTicks, \* how long sending a consumer usage may take
          PassTicks,     \* how long the rest of a pass may take
          TickMod,       \* the tick counter wraps here
          WebLayers,     \* clients ask the web server to change the layer, which it
                         \* may do even with control disabled (see WebService)
          Faults         \* "drop": the host may not take a report in time

Keys == 0..(KeyCount - 1)
Actions == [type : {"none", "keyboard", "consumer"}, usage : Nat]

ASSUME KeymapAssumption ==
  /\ KeyCount \in Nat \ {0} /\ Rollover \in Nat
  /\ 0 \in Layers /\ Keymap \in [Layers -> [Keys -> Actions]]

\* the time the scan may spend on the consumer keys before a key
ConsumersBefore(k) == {j \in Keys : j < k /\ \E l \in Layers : Keymap[l][j].type = "consumer"}

ScanDelay(k) == Cardinality(ConsumersBefore(k)) * ConsumerTicks

ASSUME ClockAssumption ==
  /\ DebounceTicks \in Nat \ {0} /\ ConsumerTicks \in Nat
  /\ TickMod \in Nat /\ PassTicks \subseteq Nat
  /\ \A d \in PassTicks \cup {0} : DebounceTicks + ScanDelay(KeyCount) + d < TickMod
ASSUME OptionAssumption ==
  WebLayers \in BOOLEAN /\ Faults \subseteq {"drop"}

VARIABLES
  clock,    \* xTaskGetTickCount()
  now,      \* what the input task read of it when the pass began
  debounce, \* s_key_db, and s_key_pressed as its stable levels
  layer,    \* s_active_layer
  shown,    \* s_ws.active_layer
  input,    \* where the input task is in its pass
  change,   \* where either task is in set_active_layer or in a report
  host,     \* the usages of the report the host took last
  lost,     \* history: the report sent last was not taken
  behind,   \* history: a key held at power-up or the web server's task, by
            \* changing the layer, may have left the host behind, and the
            \* input task has not built a report on its own since
  steady    \* history: ticks since a key began to read as it does

passVars == <<clock, now, input, steady>>
layerVars == <<layer, shown>>
hostVars == <<host, lost>>
vars == <<passVars, debounce, layerVars, change, hostVars, behind>>

Tasks == {"input", "web"}

Type(l, k) == Keymap[l][k].type
Usages == {Keymap[l][k].usage : l \in Layers, k \in Keys}

TypeOK ==
  /\ clock \in 0..(TickMod - 1) /\ now \in 0..(TickMod - 1)
  /\ debounce \in [Keys -> [last : BOOLEAN, since : 0..(TickMod - 1), stable : BOOLEAN]]
  /\ layer \in Layers /\ shown \in Layers
  /\ input \in [at : {"look", "sample", "consumer", "scanned", "taps", "rest"},
                key : Keys, layer : Layers, changed : BOOLEAN]
  /\ change \in [Tasks -> [at : {"none", "show", "build", "send", "answer"},
                           want : Layers, report : SUBSET Usages]]
  /\ host \subseteq Usages /\ Cardinality(host) <= Rollover
  /\ lost \in BOOLEAN /\ behind \in BOOLEAN
  /\ steady \in [Keys -> 0..DebounceTicks]

NoChange == [at |-> "none", want |-> 0, report |-> {}]
PassStart == [at |-> "look", key |-> 0, layer |-> 0, changed |-> FALSE]

\* the keys of a layer that are pressed and report a key code
Down(l) == {k \in Keys : debounce[k].stable /\ Type(l, k) = "keyboard"}

\* the first of them, as many as a report has room for
Sent(l) == {k \in Down(l) : Cardinality({j \in Down(l) : j < k}) < Rollover}

Codes(l) == {Keymap[l][k].usage : k \in Sent(l)}

\* the levels of the pins at power-up are the stable ones
Init ==
  /\ clock = 0 /\ now = 0
  /\ \E pins \in [Keys -> BOOLEAN] :
       debounce = [k \in Keys |-> [last |-> pins[k], since |-> 0, stable |-> pins[k]]]
  /\ layer = 0 /\ shown = 0
  /\ input = PassStart
  /\ change = [t \in Tasks |-> NoChange]
  /\ host = {} /\ lost = FALSE /\ behind = (Codes(0) # host)
  /\ steady = [k \in Keys |-> 0]

\* d ticks go by
Elapse(d) ==
  /\ clock' = (clock + d) % TickMod
  /\ steady' = [k \in Keys |-> IF steady[k] + d > DebounceTicks THEN DebounceTicks
                                                               ELSE steady[k] + d]

-----------------------------------------------------------------------------
(***************************************************************************)
(* set_active_layer and macropad_send_keyboard_report, in the task t.      *)
(***************************************************************************)
Step(t, at) == change' = [change EXCEPT ![t].at = at]

SetLayer(t, l) ==
  /\ l # layer
  /\ layer' = l
  /\ change' = [change EXCEPT ![t] = [at |-> "show", want |-> l, report |-> {}]]
  /\ UNCHANGED <<shown, debounce, hostVars>>

\* Fault: the keys held over a change of the layer are not reported anew.
ShowOnly(t) ==
  /\ change[t].at = "show"
  /\ shown' = layer
  /\ Step(t, "none")
  /\ UNCHANGED <<passVars, debounce, layer, hostVars, behind>>

\* web_service_set_active_layer is given what s_active_layer is by now
Show(t) ==
  /\ change[t].at = "show"
  /\ shown' = layer
  /\ Step(t, "build")
  /\ UNCHANGED <<passVars, debounce, layer, hostVars, behind>>

Build(t) ==
  /\ change[t].at = "build"
  /\ change' = [change EXCEPT ![t].at = "send", ![t].report = Codes(layer)]
  /\ behind' = (behind /\ (t = "web" \/ change["web"].at # "none"))
  /\ UNCHANGED <<passVars, debounce, layerVars, hostVars>>

AfterReport(t) == IF t = "web" THEN "answer" ELSE "none"

\* taken by the host, or dropped: not ready, or busy until the timeout
Send(t) ==
  /\ change[t].at = "send"
  /\ \/ host' = change[t].report /\ lost' = FALSE
     \/ "drop" \in Faults /\ host' = host /\ lost' = TRUE
  /\ change' = [change EXCEPT ![t].at = AfterReport(t), ![t].report = {}]
  /\ UNCHANGED <<passVars, debounce, layerVars, behind>>

Report(t) == Show(t) \/ Build(t) \/ Send(t)

-----------------------------------------------------------------------------
(***************************************************************************)
(* The input task: one key after the other, the report, the taps.          *)
(***************************************************************************)
InputAt(at) == input.at = at /\ change["input"].at = "none"

\* active_cfg is looked up before the key is sampled, and used after
Look ==
  /\ InputAt("look")
  /\ input' = [input EXCEPT !.at = "sample", !.layer = layer]
  /\ UNCHANGED <<clock, now, steady, debounce, layerVars, change, hostVars, behind>>

NextKey(changed) ==
  IF input.key + 1 \in Keys
    THEN [input EXCEPT !.at = "look", !.key = @ + 1, !.changed = changed]
    ELSE [input EXCEPT !.at = "scanned", !.changed = changed]

\* Fault: the deadline is compared instead of the distance.
AgeByDeadline(since) ==
  IF now >= (since + DebounceTicks) % TickMod THEN DebounceTicks ELSE 0

\* Fault: the ticks are compared as signed distance.
AgeIfLater(since) == IF now >= since THEN now - since ELSE 0

\* now - last_transition_tick, in unsigned arithmetic
Age(since) == (now + TickMod - since) % TickMod

Debounced(d, raw) ==
  LET e == IF raw # d.last THEN [d EXCEPT !.last = raw, !.since = now] ELSE d
  IN  IF Age(e.since) >= DebounceTicks THEN [e EXCEPT !.stable = e.last] ELSE e

\* keyboard_state_changed after an edge of the key
Changed(type) == input.changed \/ type = "keyboard"

Sample ==
  /\ InputAt("sample")
  /\ \E raw \in BOOLEAN :
       LET k == input.key
           type == Type(input.layer, k)
           d == Debounced(debounce[k], raw)
           edge == d.stable # debounce[k].stable
       IN  /\ debounce' = [debounce EXCEPT ![k] = d]
           /\ steady' = [steady EXCEPT ![k] = IF raw = debounce[k].last THEN @ ELSE 0]
           /\ input' = IF edge /\ d.stable /\ type = "consumer"
                         THEN [input EXCEPT !.at = "consumer"]
                         ELSE NextKey(IF edge THEN Changed(type) ELSE input.changed)
  /\ UNCHANGED <<clock, now, layerVars, change, hostVars, behind>>

\* the press, 12 ms, the release; each is retried until its timeout
SendConsumer ==
  /\ InputAt("consumer")
  /\ \E d \in 0..ConsumerTicks : Elapse(d)
  /\ input' = NextKey(input.changed)
  /\ UNCHANGED <<now, debounce, layerVars, change, hostVars, behind>>

Scanned ==
  /\ InputAt("scanned")
  /\ input' = [input EXCEPT !.at = "taps"]
  /\ change' = IF input.changed THEN [change EXCEPT !["input"].at = "build"] ELSE change
  /\ UNCHANGED <<clock, now, steady, debounce, layerVars, hostVars, behind>>

\* the taps of this pass ask for a layer, or for none
Taps ==
  /\ InputAt("taps")
  /\ input' = [input EXCEPT !.at = "rest"]
  /\ \/ \E l \in Layers : SetLayer("input", l)
     \/ UNCHANGED <<debounce, layerVars, change, hostVars>>
  /\ UNCHANGED <<clock, now, steady, behind>>

\* vTaskDelay, and the clock is read anew
Pass(d) ==
  /\ InputAt("rest")
  /\ Elapse(d)
  /\ now' = clock'
  /\ input' = PassStart
  /\ UNCHANGED <<debounce, layerVars, change, hostVars, behind>>

InputTask ==
  \/ Look \/ Sample \/ SendConsumer \/ Scanned \/ Taps
  \/ \E d \in PassTicks : Pass(d)
  \/ Report("input")

-----------------------------------------------------------------------------
(***************************************************************************)
(* POST /api/v1/control/layer in the web server's task.                    *)
(***************************************************************************)
WebLayer(l) ==
  /\ WebLayers /\ change["web"].at = "none"
  /\ \/ SetLayer("web", l) /\ behind' = TRUE
     \/ /\ l = layer /\ behind' = behind
        /\ change' = [change EXCEPT !["web"] = [at |-> "answer", want |-> l, report |-> {}]]
        /\ UNCHANGED <<debounce, layerVars, hostVars>>
  /\ UNCHANGED passVars

\* the handler stores the layer it was asked for once more
WebAnswer ==
  /\ change["web"].at = "answer"
  /\ shown' = change["web"].want
  /\ Step("web", "none")
  /\ UNCHANGED <<passVars, debounce, layer, hostVars, behind>>

WebTask == (\E l \in Layers : WebLayer(l)) \/ Report("web") \/ WebAnswer

Next == InputTask \/ WebTask

(***************************************************************************)
(* The input task runs, and time passes while it rests.                    *)
(***************************************************************************)
Fairness == WF_vars(InputTask) /\ SF_vars(\E d \in PassTicks \ {0} : Pass(d))

SafetySpec == Init /\ [][Next]_vars
Spec == SafetySpec /\ Fairness

-----------------------------------------------------------------------------
(***************************************************************************)
(* Runtime-Behavior.md:14, keyboard actions update and send the report     *)
(* state: between the passes the host holds down the keyboard keys that    *)
(* are pressed on the active layer, all of them, or as many as a report    *)
(* has room for; unless the last report did not get through, and but for   *)
(* the time from a key held at power-up or a change of the layer in the    *)
(* web server's task to the next report the input task builds on its own.  *)
(***************************************************************************)
Resting == input.at = "rest" /\ \A t \in Tasks : change[t].at = "none"

Wanted == {Keymap[layer][k].usage : k \in Down(layer)}

Follows ==
  /\ host \subseteq Wanted
  /\ Cardinality(Down(layer)) <= Rollover => host = Wanted

ReportFull == Cardinality(host) = Rollover

HostFollowsKeys ==
  Resting /\ ~lost /\ ~behind => Follows /\ (host = Wanted \/ ReportFull)

(***************************************************************************)
(* The debounce time, on the clock of the scan (main.c:629, :643): a key   *)
(* changes only after it has read the same for the debounce time less the  *)
(* time the scan may have spent, since it read the clock, on the consumer  *)
(* keys before this one.                                                   *)
(***************************************************************************)
EdgesAreDebounced ==
  [][\A k \in Keys : debounce'[k].stable # debounce[k].stable
                       => steady[k] + ScanDelay(k) >= DebounceTicks]_vars

(***************************************************************************)
(* Runtime-Behavior.md:13, "GPIO input is debounced (`DEBOUNCE_MS`)": a    *)
(* key changes only after it has read the same for the whole of that time. *)
(***************************************************************************)
DebouncedInFull ==
  [][\A k \in Keys : debounce'[k].stable # debounce[k].stable
                       => steady[k] >= DebounceTicks]_vars

(***************************************************************************)
(* A level that a key reads for good is taken over in the end, also across *)
(* a wrap of the tick counter: what a key reads and its stable level never *)
(* stay apart.                                                             *)
(***************************************************************************)
HeldKeySeen == \A k \in Keys : []<>(debounce[k].stable = debounce[k].last)
=============================================================================
