---------------------------- MODULE MCAlgorithms ----------------------------
(***************************************************************************)
(* The small parts of the program on small inputs: Split, Histogram, the   *)
(* conversion to little-endian bytes and a fail point.  They share no      *)
(* state; a behaviour is one of IoRequestSplit, Histogram, Serialize or    *)
(* FailPoint, and the variables of the others stay as they are.            *)
(***************************************************************************)
EXTENDS IoRequestSplit, FailPoint

CONSTANTS MaxBound, MaxInserts,   \* of Histogram
          Bytes, ByteCounts       \* of Serialize

ASSUME AlgorithmsAssumption ==
    /\ MaxBound \in Nat /\ MaxInserts \in Nat
    /\ ByteCounts \subseteq Nat \ {0}

\* Ascending bounds, the even numbers, so that a datum is below, at or above
\* each of them.
Buckets ==
    {b \in SeqOf({2 * n : n \in 1..MaxBound}, MaxBound) :
        b # <<>> /\ \A i, j \in 1..Len(b) : i < j => b[i] < b[j]}

VARIABLES
    algorithm,                                                     \* which one
    bucket, counter, junk, max_, num_, total_, inserted, hat,      \* of Histogram
    into, datum, lo, hi,
    writer, reader, value, memory, result                          \* of Serialize

Hist == INSTANCE Histogram WITH
    at <- hat, Data <- 1..(2 * MaxBound + 1), Junk <- {0, 1}

Bin == INSTANCE Serialize

histVars == <<bucket, counter, junk, max_, num_, total_, inserted, hat, into, datum, lo, hi>>
binVars  == <<writer, reader, value, memory, result>>
allVars  == <<algorithm, vars, histVars, binVars, failPointVars>>

\* What the variables of an algorithm are while it is not the one that runs.
SplitAside == op = "read" /\ iovec = <<0>> /\ max_length = (CHOOSE l \in Lengths : TRUE)
HistAside  == bucket = <<2>> /\ junk = [h \in Hist!Histograms |-> <<0>>]
BinAside   == writer = "little" /\ reader = "little" /\ value \in [1..1 -> {CHOOSE b \in Bytes : TRUE}]

AllInit ==
    /\ \/ algorithm = "split"     /\ HistAside /\ BinAside
       \/ algorithm = "histogram" /\ SplitAside /\ BinAside
       \/ algorithm = "serialize" /\ SplitAside /\ HistAside
       \/ algorithm = "failpoint" /\ SplitAside /\ HistAside /\ BinAside
    /\ Init /\ Hist!Init /\ Bin!Init /\ PointInit

OfSplit(A) == algorithm = "split" /\ A /\ UNCHANGED <<algorithm, histVars, binVars, failPointVars>>
OfHist(A)  == algorithm = "histogram" /\ A /\ UNCHANGED <<algorithm, vars, binVars, failPointVars>>
OfBin(A)   == algorithm = "serialize" /\ A /\ UNCHANGED <<algorithm, vars, histVars, failPointVars>>
OfPoint(A) == algorithm = "failpoint" /\ A /\ UNCHANGED <<algorithm, vars, histVars, binVars>>

AllNext == OfSplit(Next) \/ OfHist(Hist!Next) \/ OfBin(Bin!Next) \/ OfPoint(PointNext)

\* Nothing but the algorithm runs; of a fail point nothing is promised to happen.
AllSpec ==
    /\ AllInit /\ [][AllNext]_allVars
    /\ WF_allVars(OfSplit(Next)) /\ WF_allVars(OfHist(Hist!Search))

(***************************************************************************)
(* The loops of Split and of Insert end, whatever they are given.          *)
(***************************************************************************)
LoopsEnd == (algorithm = "split" => Terminates) /\ Hist!InsertReturns

(***************************************************************************)
(* The counters of a histogram agree with the data, to within one bucket.  *)
(***************************************************************************)
CountsBracket == Hist!CountsBracket

(***************************************************************************)
(* The bytes of a value are little-endian on every machine, and are read   *)
(* back as the value.                                                      *)
(***************************************************************************)
LittleEndian == Bin!LittleEndian
=============================================================================
