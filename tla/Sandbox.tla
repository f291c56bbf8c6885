-------------------------------- MODULE Sandbox --------------------------------
(***************************************************************************)
(* The protocol sandbox (hooks/useSandboxController.ts, screens/Sandbox    *)
(* and screens/ProtocolSandbox.tsx): a stack of layers the user arranges,  *)
(* the packet the engine builds of it, its hex dump, and "copied" toasts   *)
(* that go away by timers nobody cancels.                                  *)
(***************************************************************************)
EXTENDS Integers, Sequences, FiniteSets, SequencesExt

CONSTANTS
    Layers,       \* AVAILABLE_LAYERS
    Presets,      \* the stacks of PRESETS, DefaultStack among them
    DefaultStack,
    MaxStack,     \* bound: layers in the stack
    MaxToasts     \* bound: toast timers running

ASSUME SandboxConstants ==
    /\ DefaultStack \in Presets /\ \A p \in Presets : p \in Seq(Layers) /\ Len(p) \in 1 .. MaxStack
    /\ MaxStack \in Nat \ {0} /\ MaxToasts \in Nat \ {0}

VARIABLES
    sandbox,   \* what the mounted screen holds
    building,  \* the stack the engine is building, or << >>
    timers     \* toast timers that have not fired

sandboxVars == <<sandbox, building, timers>>

SandboxInit ==
    /\ sandbox = [layers |-> DefaultStack, built |-> << >>, isBuilding |-> FALSE,
                  notice |-> FALSE, toast |-> "none"]
    /\ building = << >> /\ timers = 0

\* PacketBuilderEngine: 40 hex digits, and 32 more for every TCP layer.
HexDigits(stack) == 40 + 32 * Cardinality({i \in DOMAIN stack : stack[i] = "TCP"})

\* formatHexDump: rows of 32 digits, each with the offset of its first byte and its bytes.
FormatHexDump(digits) ==
    [r \in 1 .. (digits + 31) \div 32 |->
        LET from == 32 * (r - 1)
            chunk == IF digits - from < 32 THEN digits - from ELSE 32
        IN [offset |-> from \div 2, bytes |-> (chunk + 1) \div 2]]

\* The badge of the hex viewer.
TotalBytes(digits) == digits \div 2

\* What the layer builder and the results offer.
\* Mutant: the last layer can be taken away too.
LastLayerToo(i) ==
    [up |-> i > 1 /\ ~sandbox.isBuilding,
     down |-> i < Len(sandbox.layers) /\ ~sandbox.isBuilding,
     remove |-> ~sandbox.isBuilding, build |-> ~sandbox.isBuilding]
LayerBuilder(i) ==
    [up |-> i > 1 /\ ~sandbox.isBuilding,
     down |-> i < Len(sandbox.layers) /\ ~sandbox.isBuilding,
     remove |-> Len(sandbox.layers) > 1 /\ ~sandbox.isBuilding,
     build |-> ~sandbox.isBuilding]
SandboxView ==
    IF sandbox.isBuilding THEN "skeletons" ELSE IF sandbox.built # << >> THEN "results" ELSE "presets"

\* inspectPacket, up to its await.
InspectPacket(screen, stack) ==
    /\ sandbox' = [screen EXCEPT !.notice = FALSE, !.toast = "none", !.isBuilding = TRUE]
    /\ building' = stack

Build ==
    /\ LayerBuilder(1).build
    /\ InspectPacket(sandbox, sandbox.layers)
    /\ UNCHANGED timers

\* A preset of the bar or of the empty state: the stack it names is built, not the one
\* the closure of this render still holds.
LoadPreset(p) ==
    /\ LayerBuilder(1).build
    /\ InspectPacket([sandbox EXCEPT !.layers = p], p)
    /\ UNCHANGED timers

AddLayer(l) ==
    /\ LayerBuilder(1).build /\ Len(sandbox.layers) < MaxStack
    /\ sandbox' = [sandbox EXCEPT !.layers = Append(@, l)]
    /\ UNCHANGED <<building, timers>>

RemoveLayer(i) ==
    /\ i \in 1 .. Len(sandbox.layers) /\ LayerBuilder(i).remove
    /\ sandbox' = [sandbox EXCEPT !.layers = RemoveAt(@, i)]
    /\ UNCHANGED <<building, timers>>

MoveLayer(i, j) ==
    /\ i \in 1 .. Len(sandbox.layers)
    /\ \/ j = i - 1 /\ LayerBuilder(i).up
       \/ j = i + 1 /\ LayerBuilder(i).down
    /\ sandbox' = [sandbox EXCEPT !.layers = [@ EXCEPT ![i] = sandbox.layers[j], ![j] = sandbox.layers[i]]]
    /\ UNCHANGED <<building, timers>>

Copy(what) ==
    /\ SandboxView = "results" /\ timers < MaxToasts
    /\ sandbox' = [sandbox EXCEPT !.toast = what]
    /\ timers' = timers + 1
    /\ UNCHANGED building

ToastTimer ==
    /\ timers > 0
    /\ sandbox' = [sandbox EXCEPT !.toast = "none"]
    /\ timers' = timers - 1
    /\ UNCHANGED building

PacketAnswered(ok) ==
    /\ building # << >>
    /\ sandbox' = [sandbox EXCEPT !.isBuilding = FALSE, !.notice = ~ok,
                                  !.built = IF ok THEN building ELSE @]
    /\ building' = << >>
    /\ UNCHANGED timers

DismissSandboxNotice ==
    /\ sandbox.notice
    /\ sandbox' = [sandbox EXCEPT !.notice = FALSE]
    /\ UNCHANGED <<building, timers>>

SandboxNext ==
    \/ Build \/ \E p \in Presets : LoadPreset(p)
    \/ \E l \in Layers : AddLayer(l)
    \/ \E i \in 1 .. MaxStack : RemoveLayer(i) \/ \E j \in {i - 1, i + 1} : MoveLayer(i, j)
    \/ \E what \in {"copied_hex", "copied_json"} : Copy(what)
    \/ ToastTimer \/ DismissSandboxNotice \/ \E ok \in BOOLEAN : PacketAnswered(ok)

-----------------------------------------------------------------------------
SandboxTypeOK ==
    /\ sandbox.layers \in Seq(Layers) /\ Len(sandbox.layers) \in 1 .. MaxStack
    /\ sandbox.toast \in {"none", "copied_hex", "copied_json"} /\ timers \in 0 .. MaxToasts

\* The packet under construction is that of the stack on the screen, from the press of a
\* button or a preset to the answer.
BuildsWhatIsShown ==
    /\ sandbox.isBuilding <=> building # << >>
    /\ sandbox.isBuilding => building = sandbox.layers

\* A toast that is on the screen has a timer that will take it away, though the timers
\* of other toasts may do it first.
ToastWillGo == sandbox.toast # "none" => timers > 0

\* The dump of a built packet leaves no byte out: rows follow each other without a gap,
\* and together have as many bytes as the badge says.
DumpIsComplete ==
    LET dump == FormatHexDump(HexDigits(sandbox.built))
        end(r) == dump[r].offset + dump[r].bytes
    IN sandbox.built # << >> =>
          /\ \A r \in 1 .. Len(dump) - 1 : dump[r + 1].offset = end(r)
          /\ end(Len(dump)) = TotalBytes(HexDigits(sandbox.built))
=============================================================================
