-------------------------- MODULE InternalsProofs ---------------------------
(***************************************************************************)
(* Proofs about the helpers of Internals, for lists of every length and    *)
(* spans with every flags.                                                 *)
(***************************************************************************)
EXTENDS Internals, TLAPS

-----------------------------------------------------------------------------
(* Summaries.                                                              *)

LEMMA AtMostTen ==
    ASSUME NEW n \in 0 .. 10
    PROVE  /\ n >= 10 => n = 10
           /\ \A m \in Nat : m > n /\ n >= 10 => m > 10
           /\ ~(n > 10)
OBVIOUS

\* The loop writes one entry more, or stops where it should.
LEMMA SummaryStep ==
    ASSUME SummaryInv, list_summary
    PROVE  SummaryInv'
<1>0. /\ at = "loop" /\ UNCHANGED <<kind, list>>
      /\ Len(sb) \in 0 .. 10 /\ Len(list) \in Nat /\ Len(sb) <= Len(list) /\ ~more
  BY DEF list_summary, SummaryInv
<1>h. /\ kind \in {"events", "actions"}
      /\ Len(list) \in Nat
  BY DEF SummaryInv
<1>1. CASE UNCHANGED sb
  <2>1. sb' = [k \in 1 .. Len(sb') |-> Written(kind', list'[k])]
    BY <1>0, <1>1 DEF SummaryInv
  <2>2. \/ /\ at' = "panic" /\ Len(sb) < 10 /\ Len(sb) < Len(list)
           /\ Unwraps(kind, list[Len(sb) + 1])
        \/ at' = "done" /\ Len(sb) >= 10 /\ Len(sb) < Len(list) /\ more' = TRUE
        \/ at' = "done" /\ Len(sb) = Len(list) /\ ~more'
    <3>1. CASE Len(sb) < Len(list)
      BY <1>0, <1>1, <3>1 DEF list_summary, Summarise
    <3>2. CASE ~(Len(sb) < Len(list))
      BY <1>0, <3>2 DEF list_summary
    <3> QED BY <3>1, <3>2
  <2>3. CASE at' = "panic"
    BY <1>0, <1>h, <1>1, <2>1, <2>2, <2>3 DEF SummaryInv
  <2>4. CASE at' = "done"
    <3>0. \/ Len(sb) >= 10 /\ Len(list) > Len(sb) /\ more'
          \/ Len(sb) = Len(list) /\ ~more'
      BY <1>0, <2>2, <2>4
    <3>1. Len(sb) = 10 \/ Len(sb) = Len(list)
      BY <1>0, <3>0, AtMostTen
    <3>2. more' <=> Len(list) > 10
      BY <1>0, <3>0, AtMostTen
    <3> QED BY <1>0, <1>h, <1>1, <2>1, <2>4, <3>1, <3>2 DEF SummaryInv
  <2> QED BY <2>2, <2>3, <2>4
<1>2. CASE ~UNCHANGED sb
  <2>0. Len(sb) < Len(list)
    BY <1>0, <1>2 DEF list_summary
  <2>1. /\ Len(sb) < 10 /\ UNCHANGED <<more, at>>
        /\ sb' = Append(sb, Written(kind, list[Len(sb) + 1]))
    BY <1>0, <1>2, <2>0 DEF list_summary, Summarise
  <2>2. PICK n : n = Len(sb)
    OBVIOUS
  <2>3. n \in 0 .. 9 /\ n + 1 \in 0 .. 10 /\ n + 1 <= Len(list)
    <3>1. n \in 0 .. 10 /\ n < 10 /\ n < Len(list) /\ Len(list) \in Nat
      BY <1>0, <2>0, <2>1, <2>2
    <3> QED BY <3>1
  <2>4. sb = [k \in 1 .. n |-> Written(kind, list[k])]
    BY <2>2 DEF SummaryInv
  <2>5. sb \in Seq({Written(kind, list[k]) : k \in 1 .. n})
    BY <2>3, <2>4
  <2>6. sb' = [k \in 1 .. n + 1 |-> Written(kind, list[k])]
    BY <2>1, <2>2, <2>3, <2>4, <2>5
  <2>7. Len(sb') = n + 1
    BY <2>3, <2>6
  <2>8. sb' = [k \in 1 .. Len(sb') |-> Written(kind', list'[k])]
    BY <1>0, <2>6, <2>7
  <2> QED BY <1>0, <1>h, <2>1, <2>3, <2>7, <2>8 DEF SummaryInv
<1> QED BY <1>1, <1>2

-----------------------------------------------------------------------------
(* Flags.                                                                  *)

\* What is written in decimal and read in hexadecimal keeps its last bit, and
\* what has one digit is read as it was.
LEMMA ReadBack ==
    ASSUME NEW f \in 0 .. 255
    PROVE  /\ FromHex(Digits(f)) \in Nat
           /\ Sampled(FromHex(Digits(f))) <=> Sampled(f)
           /\ f < 10 => FromHex(Digits(f)) = f
<1>1. CASE f < 10
  <2>1. Digits(f) = <<f>> /\ FromHex(<<f>>) = f
    BY <1>1 DEF Digits, FromHex, InBase
  <2> QED BY <1>1, <2>1
<1>2. CASE f \in 10 .. 99
  <2>1. Digits(f) = <<f \div 10, f % 10>>
    BY <1>2 DEF Digits
  <2>2. FromHex(<<f \div 10, f % 10>>) = 16 * (f \div 10) + (f % 10)
    BY DEF FromHex, InBase
  <2>3. FromHex(Digits(f)) = 16 * (f \div 10) + (f % 10)
    BY <2>1, <2>2
  <2> QED BY <1>2, <2>3, SMTT(60) DEF Sampled
<1>3. CASE f \in 100 .. 255
  <2>1. Digits(f) = <<f \div 100, (f \div 10) % 10, f % 10>>
    BY <1>3 DEF Digits
  <2>2. FromHex(<<f \div 100, (f \div 10) % 10, f % 10>>)
            = 256 * (f \div 100) + 16 * ((f \div 10) % 10) + (f % 10)
    BY DEF FromHex, InBase
  <2>3. FromHex(Digits(f)) = 256 * (f \div 100) + 16 * ((f \div 10) % 10) + (f % 10)
    BY <2>1, <2>2
  <2> QED BY <1>3, <2>3, SMTT(60) DEF Sampled
<1> QED BY <1>1, <1>2, <1>3

LEMMA ReadDigits ==
    ASSUME NEW a \in 0 .. 9, NEW b \in 0 .. 9, NEW c \in 0 .. 9
    PROVE  /\ FromHex(<<a>>) = a
           /\ FromHex(<<a, b>>) = 16 * a + b
           /\ FromHex(<<a, b, c>>) = 256 * a + 16 * b + c
<1>1. Len(<<a>>) = 1 /\ Len(<<a, b>>) = 2 /\ Len(<<a, b, c>>) = 3
  OBVIOUS
<1>2. FromHex(<<a>>) = a
  BY <1>1 DEF FromHex, InBase
<1>3. FromHex(<<a, b>>) = 16 * a + b
  BY <1>1 DEF FromHex, InBase
<1>4. FromHex(<<a, b, c>>) = 256 * a + 16 * b + c
  BY <1>1 DEF FromHex, InBase
<1> QED BY <1>2, <1>3, <1>4

\* A hop keeps the chain in one trace, or breaks it for its cause.
LEMMA TraceStep ==
    ASSUME TraceInv, Hop
    PROVE  TraceInv'
<1>1. CASE trace_context_from_span
  BY <1>1 DEF trace_context_from_span, TraceInv, TraceKept, UnreadableForCause
<1>2. CASE OlderPeer
  <2>1. tc'.parts = 1
    <3>1. PICK id \in {span.trace, "not hex"}, state \in {None, span.state} :
              tc' = [parts |-> 1, trace |-> id, flags |-> <<>>, state |-> state]
      BY <1>2 DEF OlderPeer
    <3> QED BY <3>1
  <2>2. tc'.parts # 4
    BY <2>1
  <2>3. tc'.trace \in {span.trace, "not hex"}
    <3>1. PICK id \in {span.trace, "not hex"}, state \in {None, span.state} :
              tc' = [parts |-> 1, trace |-> id, flags |-> <<>>, state |-> state]
      BY <1>2 DEF OlderPeer
    <3> QED BY <3>1
  <2>5. outcome = "linked" /\ UNCHANGED <<start, span, outcome>>
    BY <1>2 DEF OlderPeer
  <2>6. TraceKept' /\ UnreadableForCause'
    BY <2>5 DEF TraceInv, TraceKept, UnreadableForCause
  <2>7. start'.flags \in 0 .. 255 /\ (outcome' = "linked" => span'.flags \in 0 .. 255)
    BY <2>5 DEF TraceInv
  <2> QED BY <2>2, <2>3, <2>5, <2>6, <2>7 DEF TraceInv
<1>3. CASE context_from_trace_context
  <2>1. CASE tc.state = None
    BY <1>3, <2>1 DEF context_from_trace_context, NewRoot, TraceInv, TraceKept,
                      UnreadableForCause
  <2>2. CASE tc.state # None /\ tc.parts # 4
    BY <1>3, <2>2 DEF context_from_trace_context, FromOlder, Fails, TraceInv, TraceKept,
                      UnreadableForCause
  <2>3. CASE tc.state # None /\ tc.parts = 4
    <3> DEFINE hex == FromHex(Digits(span.flags))
    <3>1. /\ hex \in Nat /\ (Sampled(hex) <=> Sampled(span.flags))
          /\ span.flags < 10 => hex = span.flags
      BY <1>3, ReadBack DEF TraceInv, context_from_trace_context
    <3>2. /\ outcome = "linked" /\ tc.trace = span.trace /\ FromHex(tc.flags) = hex
          /\ Sampled(span.flags) /\ tc # None /\ UNCHANGED start
      BY <1>3, <2>3 DEF TraceInv, context_from_trace_context
    <3>3. FromParts /\ tc' = None
      BY <1>3, <2>3 DEF context_from_trace_context
    <3> HIDE DEF hex
    <3>4. CASE hex > 255
      <4>1. ~(start.flags < 10) /\ start.flags # 10
        BY <3>1, <3>2, <3>4 DEF TraceInv, TraceKept, Sampled
      <4> QED
        BY <3>2, <3>3, <3>4, <4>1 DEF FromParts, Fails, TraceInv, TraceKept, UnreadableForCause
    <3>5. CASE ~(hex > 255)
      BY <3>1, <3>2, <3>3, <3>5 DEF FromParts, Follows, TraceInv, TraceKept, UnreadableForCause
    <3> QED BY <3>4, <3>5
  <2> QED BY <1>3, <2>1, <2>2, <2>3 DEF context_from_trace_context
<1> QED BY <1>1, <1>2, <1>3 DEF Hop

-----------------------------------------------------------------------------
(* The invariant.                                                          *)

THEOREM InitIntInv == Init => IntInv
<1> SUFFICES ASSUME Init PROVE IntInv
  OBVIOUS
<1>1. PICK i \in Inputs : kind = i[1] /\ list = i[2] /\ start = i[3]
  BY DEF Init
<1>2. SummaryInv
  <2>1. sb = <<>> /\ Len(sb) = 0 /\ sb = [k \in 1 .. Len(sb) |-> Written(kind, list[k])] /\ at = "loop" /\ ~more
    BY DEF Init
  <2>2. /\ kind \in {"events", "actions"}
        /\ Len(list) \in Nat
    <3>1. /\ i[1] \in {"events", "actions"}
          /\ i[2] \in Seq({i[2][k] : k \in DOMAIN i[2]})
      BY InputsAssumption
    <3>2. Len(i[2]) \in Nat
      BY <3>1
    <3> QED BY <1>1, <3>1, <3>2
  <2> QED BY <2>1, <2>2 DEF SummaryInv
<1>3. TraceInv
  BY <1>1, InputsAssumption DEF Init, TraceInv, TraceKept, UnreadableForCause
<1> QED BY <1>2, <1>3 DEF IntInv

THEOREM StepIntInv == IntInv /\ [Next]_vars => IntInv'
<1> SUFFICES ASSUME IntInv, [Next]_vars PROVE IntInv'
  OBVIOUS
<1>1. CASE list_summary
  BY <1>1, SummaryStep
     DEF IntInv, list_summary, TraceInv, TraceKept, UnreadableForCause, trace
<1>2. CASE Hop
  <2>1. UNCHANGED summary
    BY <1>2 DEF Hop, trace_context_from_span, OlderPeer, context_from_trace_context
  <2>2. SummaryInv'
    BY <2>1 DEF IntInv, SummaryInv, summary
  <2> QED BY <1>2, <2>2, TraceStep DEF IntInv
<1>3. CASE UNCHANGED vars
  <2>1. UNCHANGED <<summary, trace>>
    BY <1>3 DEF vars
  <2>2. SummaryInv'
    BY <2>1 DEF IntInv, SummaryInv, summary
  <2>3. TraceInv'
    BY <2>1 DEF IntInv, TraceInv, TraceKept, UnreadableForCause, trace
  <2> QED BY <2>2, <2>3 DEF IntInv
<1> QED BY <1>1, <1>2, <1>3 DEF Next

\* IntInv is an invariant of the helpers.
THEOREM IntInvariance == Spec => []IntInv
BY InitIntInv, StepIntInv, PTL DEF Spec

\* A summary of a list of any length shows the first ten entries, or all, and
\* says whether there are more.
THEOREM SummariesAbridged == Spec => []Abridged
<1>1. SummaryInv => Abridged
  <2> SUFFICES ASSUME SummaryInv PROVE Abridged
    OBVIOUS
  <2>0. /\ Len(sb) \in 0 .. 10 /\ Len(list) \in Nat /\ Len(sb) <= Len(list)
        /\ sb = [k \in 1 .. Len(sb) |-> Written(kind, list[k])]
    BY DEF SummaryInv
  <2>1. CASE at = "done"
    <3>1. (Len(sb) = 10 \/ Len(sb) = Len(list)) /\ (more <=> Len(list) > 10)
      BY <2>1 DEF SummaryInv
    <3>2. Len(sb) = IF Len(list) > 10 THEN 10 ELSE Len(list)
      BY <2>0, <3>1
    <3> QED BY <2>0, <2>1, <3>1, <3>2 DEF Abridged
  <2>2. CASE at # "done"
    BY <2>2 DEF SummaryInv, Abridged
  <2> QED BY <2>1, <2>2
<1> QED BY <1>1, IntInvariance, PTL DEF IntInv

\* A chain of hops stays in one trace, and sampled.
THEOREM ChainKept == Spec => []TraceKept
BY IntInvariance, PTL DEF IntInv, TraceInv

\* Only flags of more than one digit ever make a context unreadable.
THEOREM OnlyByItsFlags == Spec => []UnreadableForCause
BY IntInvariance, PTL DEF IntInv, TraceInv
=============================================================================
