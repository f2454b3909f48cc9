------------------------------ MODULE MCParts ------------------------------
(***************************************************************************)
(* Three components that share nothing, for TLC: the journal's ring        *)
(* (JournalRing), the execution of a routed order (MarketSimulator) and    *)
(* the loop of a backtest (Backtest).  A behaviour is of one of them,      *)
(* which `part` names, while the others stay as they begin.                *)
(***************************************************************************)
EXTENDS JournalRing, MCMarketSimulator, MCBacktest

VARIABLE part

\* The ring does not look at its producers and values.
Symmetry == Permutations(Producers) \cup Permutations(Values)

partsVars == <<vars, simulatorVars, signalVars, backtestVars, part>>

\* Only the simulator has more than one initial state.
PartsInit ==
  /\ Init /\ SimulatorInit /\ BacktestInit
  /\ part \in {"ring", "simulator", "backtest"}
  /\ part # "simulator" => asked = CHOOSE c \in Cases : TRUE

PartsNext ==
  /\ \/ part = "ring" /\ Next /\ UNCHANGED <<simulatorVars, signalVars, backtestVars>>
     \/ part = "simulator" /\ SimulatorNext /\ UNCHANGED <<vars, signalVars, backtestVars>>
     \/ part = "backtest" /\ BacktestNext /\ UNCHANGED <<vars, simulatorVars>>
  /\ UNCHANGED part

PartsSpec == PartsInit /\ [][PartsNext]_partsVars
=============================================================================
