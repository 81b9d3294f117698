------------------------------ MODULE MCViewStream ------------------------------
(* The instances of ViewStream that TLC checks.                            *)
EXTENDS ViewStream

Long(k) == [read |-> "long", chain |-> k, marks |-> "long", active |-> 1]
Short == [read |-> "default", chain |-> 0, marks |-> "short", active |-> 1]

\* The hosts that h264_refs.rs describes: Windows, with busy and with quiet
\* pictures; the xrdp fork, with two entries of the default list active, or with
\* dual long-term references that take up all the frames; an encoder whose
\* auxiliary views are no references; one that takes the default list with one
\* active entry, and whose auxiliary views are long-term; and ones whose views
\* share a chain, or count back past each other.
Sps(n, colour, reorder) == [frames |-> n, colour |-> colour, reorder |-> reorder, gaps |-> FALSE]
Windows == [main |-> Long(0), aux |-> Long(1), sps |-> Sps(3, "bare", "bounded"), enough |-> TRUE]
Marked == [Short EXCEPT !.chain = 1, !.marks = "long"]
Hosts == {Windows,
          [Windows EXCEPT !.enough = FALSE],
          [Windows EXCEPT !.main = [Short EXCEPT !.active = 2], !.aux = Marked, !.sps = Sps(3, "described", "open")],
          [Windows EXCEPT !.sps = Sps(2, "described", "bounded")],
          [Windows EXCEPT !.main = Short, !.aux = [Short EXCEPT !.marks = "none"], !.sps = Sps(2, "none", "open")],
          [Windows EXCEPT !.main = Short, !.aux = Marked],
          [Windows EXCEPT !.aux = Long(0)],
          [Windows EXCEPT !.main = [Short EXCEPT !.read = "relative"], !.aux = Marked, !.enough = FALSE]}

\* The hypotheses under which MainViewsIntact is proved hold of Hosts.
ASSUME HostsAssumption == MinMain > 0 /\ MinAux > 0 /\ \A x \in Hosts : Described(x)
=============================================================================
