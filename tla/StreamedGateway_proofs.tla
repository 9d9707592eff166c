------------------------ MODULE StreamedGateway_proofs ------------------------
(***************************************************************************)
(* Proofs about StreamedGateway: it implements Gateway; and wherever the   *)
(* network cuts a stream, the tracker finds what the stream says.          *)
(***************************************************************************)
EXTENDS StreamedGateway, Gateway_proofs, SequenceTheorems

-----------------------------------------------------------------------------
(* StreamedGateway implements Gateway                                      *)

LEMMA StreamedStep ==
    [StreamedNext]_<<gatewayVars, streamVars>> => [GatewayNext]_gatewayVars
<1> SUFFICES ASSUME [StreamedNext]_<<gatewayVars, streamVars>>
             PROVE  [GatewayNext]_gatewayVars
  OBVIOUS
<1>1. ASSUME NEW r \in Requests,
             stream_opens(r) \/ stream_complete(r) \/ stream_broken(r)
               \/ stream_abandoned(r)
      PROVE  Handler(r)
  BY <1>1 DEF stream_opens, stream_complete, stream_broken, stream_abandoned,
              Handler, Outcomes, Successes
<1>2. ASSUME NEW r \in Requests, receives(r) \/ parses(r) \/ finishes(r)
      PROVE  UNCHANGED gatewayVars
  BY <1>2 DEF receives, parses, finishes, Tracks
<1>3. ASSUME NEW r \in Requests, settles(r)
      PROVE  Handler(r)
  <2>1. Settle(r)
    BY <1>3 DEF settles, Settle
  <2>2. QED
    BY <2>1 DEF Handler
<1>4. ASSUME NEW r \in Requests, HandlerApart(r)
      PROVE  Handler(r)
  BY <1>4 DEF HandlerApart, Handler
<1>5. QED
  BY <1>1, <1>2, <1>3, <1>4 DEF StreamedNext, GatewayNext

(* Reading streams adds nothing to what the handlers do: every behaviour   *)
(* of the gateway with its streams is one of Gateway.                      *)
THEOREM StreamedImplementsGateway == StreamedSpec => ImplementsGateway
<1>1. StreamedInit => GatewayInit
  BY DEF StreamedInit
<1>2. QED
  BY <1>1, StreamedStep, PTL DEF StreamedSpec, GatewaySpec, ImplementsGateway

-----------------------------------------------------------------------------
(* Lines                                                                   *)

(* A nonempty finite set of numbers has a least element.                   *)
LEMMA LeastElement ==
    ASSUME NEW S, IsFiniteSet(S), S \subseteq Nat, S # {}
    PROVE  \E i \in S : \A j \in S : i <= j
<1> DEFINE UpTo(k) == {j \in S : j <= k}
           T == {UpTo(k) : k \in S}
<1>1. T \in SUBSET SUBSET S /\ T # {}
  OBVIOUS
<1>2. PICK s \in T : \A t \in SUBSET s : t # s => t \notin T
  <2> HIDE DEF T
  <2>1. QED
    BY <1>1, SmallestSubset
<1>3. PICK k \in S : s = UpTo(k)
  OBVIOUS
<1>4. ASSUME NEW j \in S, ~(k <= j) PROVE FALSE
  <2>1. j \in Nat /\ k \in Nat /\ j < k
    BY <1>4
  <2>2. UpTo(j) \in SUBSET UpTo(k)
    <3>1. \A m \in S : m \in Nat /\ (m <= j => m <= k)
      BY <2>1
    <3>2. QED
      BY <3>1
  <2>3. k \in UpTo(k) /\ k \notin UpTo(j)
    BY <2>1
  <2>4. UpTo(j) # UpTo(k)
    BY <2>3
  <2>5. UpTo(j) \in T
    OBVIOUS
  <2> HIDE DEF UpTo, T
  <2>6. QED
    BY <1>2, <1>3, <2>2, <2>4, <2>5
<1>5. QED
  BY <1>4

(* The line ends of a text, and those of a part of it.                     *)
LEMMA LineEndsFacts ==
    ASSUME NEW T \in Seq(Pieces)
    PROVE  /\ Len(T) \in Nat
           /\ LineEnds(T) \subseteq 1..Len(T)
           /\ IsFiniteSet(LineEnds(T))
<1>1. Len(T) \in Nat /\ LineEnds(T) \subseteq 1..Len(T)
  BY DEF LineEnds
<1>2. IsFiniteSet(1..Len(T))
  BY <1>1, FS_Interval
<1>3. QED
  BY <1>1, <1>2, FS_Subset

LEMMA PartFacts ==
    ASSUME NEW T \in Seq(Pieces), NEW p \in Nat, NEW f \in Nat, p <= f, f <= Len(T)
    PROVE  LET part == SubSeq(T, p + 1, f)
           IN  /\ part \in Seq(Pieces)
               /\ Len(part) = f - p
               /\ \A i \in 1..(f - p) : part[i] = T[p + i]
               /\ \A i : i \in LineEnds(part) <=> i \in 1..(f - p) /\ p + i \in LineEnds(T)
<1> DEFINE part == SubSeq(T, p + 1, f)
<1>1. Len(T) \in Nat
  OBVIOUS
<1>2. \A i \in (p + 1)..f : T[i] \in Pieces
  BY <1>1
<1>3. /\ part \in Seq(Pieces)
      /\ Len(part) = IF p + 1 <= f THEN f - (p + 1) + 1 ELSE 0
      /\ \A i \in 1..(f - (p + 1) + 1) : part[i] = T[p + 1 + i - 1]
  BY <1>2, SubSeqProperties
<1> HIDE DEF part
<1>4. Len(part) = f - p
  BY <1>3
<1>5. \A i \in 1..(f - p) : part[i] = T[p + i]
  <2>1. SUFFICES ASSUME NEW i \in 1..(f - p) PROVE part[i] = T[p + i]
    OBVIOUS
  <2>2. i \in 1..(f - (p + 1) + 1) /\ p + 1 + i - 1 = p + i
    OBVIOUS
  <2>3. QED
    BY <1>3, <2>2
<1>6. ASSUME NEW i
      PROVE  i \in LineEnds(part) <=> i \in 1..(f - p) /\ p + i \in LineEnds(T)
  <2>1. i \in 1..(f - p) => p + i \in 1..Len(T)
    BY <1>1
  <2>2. QED
    BY <1>4, <1>5, <2>1 DEF LineEnds
<1>7. QED
  BY <1>3, <1>4, <1>5, <1>6 DEF part

(* Parts of a text: a part of a part, and two that meet.                   *)
LEMMA PartOfPart ==
    ASSUME NEW T \in Seq(Pieces), NEW p \in Nat, NEW f \in Nat, p <= f, f <= Len(T),
           NEW a \in Nat, NEW b \in Nat, a <= b, b <= f - p
    PROVE  SubSeq(SubSeq(T, p + 1, f), a + 1, b) = SubSeq(T, p + a + 1, p + b)
<1> DEFINE part == SubSeq(T, p + 1, f)
           inner == SubSeq(part, a + 1, b)
           direct == SubSeq(T, p + a + 1, p + b)
<1>0. Len(T) \in Nat
  OBVIOUS
<1>1. /\ part \in Seq(Pieces) /\ Len(part) = f - p
      /\ \A i \in 1..(f - p) : part[i] = T[p + i]
  BY PartFacts
<1> HIDE DEF part
<1>2. b <= Len(part)
  BY <1>1
<1>3. /\ inner \in Seq(Pieces) /\ Len(inner) = b - a
      /\ \A i \in 1..(b - a) : inner[i] = part[a + i]
  BY <1>1, <1>2, PartFacts
<1> DEFINE pa == p + a
           pb == p + b
<1>4. /\ pa \in Nat /\ pb \in Nat /\ pa <= pb /\ pb <= Len(T) /\ pb - pa = b - a
  BY <1>0
<1>5. \A i \in 1..(b - a) : p + (a + i) = pa + i
  OBVIOUS
<1> HIDE DEF pa, pb
<1>6. /\ SubSeq(T, pa + 1, pb) \in Seq(Pieces) /\ Len(SubSeq(T, pa + 1, pb)) = b - a
      /\ \A i \in 1..(b - a) : SubSeq(T, pa + 1, pb)[i] = T[pa + i]
  <2>1. /\ SubSeq(T, pa + 1, pb) \in Seq(Pieces) /\ Len(SubSeq(T, pa + 1, pb)) = pb - pa
        /\ \A i \in 1..(pb - pa) : SubSeq(T, pa + 1, pb)[i] = T[pa + i]
    BY <1>4, PartFacts
  <2>2. QED
    BY <1>4, <2>1
<1>7. \A i \in 1..(b - a) : inner[i] = SubSeq(T, pa + 1, pb)[i]
  <2>1. SUFFICES ASSUME NEW i \in 1..(b - a) PROVE inner[i] = SubSeq(T, pa + 1, pb)[i]
    OBVIOUS
  <2>2. a + i \in 1..(f - p)
    OBVIOUS
  <2>3. part[a + i] = T[p + (a + i)]
    BY <1>1, <2>2
  <2>4. p + (a + i) = pa + i
    BY <1>5
  <2>5. QED
    BY <1>3, <1>6, <2>3, <2>4
<1> HIDE DEF inner
<1>8. inner = SubSeq(T, pa + 1, pb)
  BY <1>3, <1>6, <1>7, SeqEqual
<1>9. QED
  BY <1>8 DEF inner, part, pa, pb

LEMMA PartsMeet ==
    ASSUME NEW T \in Seq(Pieces), NEW p \in Nat, NEW m \in Nat, NEW f \in Nat,
           p <= m, m <= f, f <= Len(T)
    PROVE  SubSeq(T, p + 1, m) \o SubSeq(T, m + 1, f) = SubSeq(T, p + 1, f)
<1> DEFINE first == SubSeq(T, p + 1, m)
           second == SubSeq(T, m + 1, f)
           whole == SubSeq(T, p + 1, f)
<1>0. Len(T) \in Nat
  OBVIOUS
<1>1. /\ first \in Seq(Pieces) /\ Len(first) = m - p
      /\ \A i \in 1..(m - p) : first[i] = T[p + i]
  BY <1>0, PartFacts
<1>2. /\ second \in Seq(Pieces) /\ Len(second) = f - m
      /\ \A i \in 1..(f - m) : second[i] = T[m + i]
  BY <1>0, PartFacts
<1>3. /\ whole \in Seq(Pieces) /\ Len(whole) = f - p
      /\ \A i \in 1..(f - p) : whole[i] = T[p + i]
  BY <1>0, PartFacts
<1> HIDE DEF first, second, whole
<1>4. /\ first \o second \in Seq(Pieces)
      /\ Len(first \o second) = Len(first) + Len(second)
      /\ \A i \in 1..(Len(first) + Len(second)) :
            (first \o second)[i] = IF i <= Len(first) THEN first[i]
                                   ELSE second[i - Len(first)]
  BY <1>1, <1>2, ConcatProperties
<1>5. Len(first \o second) = f - p
  BY <1>1, <1>2, <1>4
<1>6. \A i \in 1..(f - p) : (first \o second)[i] = whole[i]
  <2>1. SUFFICES ASSUME NEW i \in 1..(f - p) PROVE (first \o second)[i] = whole[i]
    OBVIOUS
  <2>2. i \in 1..(Len(first) + Len(second))
    BY <1>1, <1>2
  <2>3. CASE i <= m - p
    <3>1. first[i] = T[p + i]
      BY <1>1, <2>3
    <3>2. QED
      BY <1>1, <1>3, <1>4, <2>2, <2>3, <3>1
  <2>4. CASE ~(i <= m - p)
    <3>1. i - (m - p) \in 1..(f - m) /\ m + (i - (m - p)) = p + i
      BY <2>4
    <3>2. second[i - (m - p)] = T[p + i]
      BY <1>2, <3>1
    <3>3. QED
      BY <1>1, <1>3, <1>4, <2>2, <2>4, <3>2
  <2>5. QED
    BY <2>3, <2>4
<1>7. first \o second = whole
  BY <1>3, <1>4, <1>5, <1>6, SeqEqual
<1>8. QED
  BY <1>7 DEF first, second, whole

(* The first line end of a buffer that has one.                            *)
LEMMA FirstLineEndIs ==
    ASSUME NEW B \in Seq(Pieces), LineEnds(B) # {}
    PROVE  /\ FirstLineEnd(B) \in LineEnds(B)
           /\ \A j \in LineEnds(B) : FirstLineEnd(B) <= j
<1>1. IsFiniteSet(LineEnds(B)) /\ LineEnds(B) \subseteq Nat
  BY LineEndsFacts
<1>2. \E i \in LineEnds(B) : \A j \in LineEnds(B) : i <= j
  BY <1>1, LeastElement
<1>3. QED
  BY <1>2 DEF FirstLineEnd

(* The lines of a text, by the position after which each starts.           *)
Starts(T) == {0} \cup LineEnds(T)
Stops(T) == LineEnds(T) \cup {Len(T) + 1}
Before(T, p) == {s \in Lines(T) : s[2] <= p}

LEMMA LinesFacts ==
    ASSUME NEW T \in Seq(Pieces)
    PROVE  /\ IsFiniteSet(Lines(T))
           /\ \A s \in Lines(T) : /\ s = <<s[1], s[2]>>
                                  /\ s[1] \in Starts(T) /\ s[2] \in Stops(T)
                                  /\ s[1] \in Nat /\ s[2] \in Nat
                                  /\ s[1] < s[2]
                                  /\ \A k \in LineEnds(T) : ~(s[1] < k /\ k < s[2])
           /\ \A i \in Starts(T), j \in Stops(T) :
                 i < j /\ (\A k \in LineEnds(T) : ~(i < k /\ k < j)) => <<i, j>> \in Lines(T)
<1>1. IsFiniteSet({0}) /\ IsFiniteSet({Len(T) + 1})
  BY FS_Singleton
<1>2. IsFiniteSet(Starts(T)) /\ IsFiniteSet(Stops(T))
  BY <1>1, LineEndsFacts, FS_Union DEF Starts, Stops
<1>3. IsFiniteSet(Starts(T) \X Stops(T)) /\ Lines(T) \subseteq Starts(T) \X Stops(T)
  BY <1>2, FS_Product DEF Lines, Starts, Stops
<1>4. IsFiniteSet(Lines(T))
  BY <1>3, FS_Subset
<1>5. \A s \in Lines(T) : /\ s = <<s[1], s[2]>>
                          /\ s[1] \in Starts(T) /\ s[2] \in Stops(T)
                          /\ s[1] < s[2]
                          /\ \A k \in LineEnds(T) : ~(s[1] < k /\ k < s[2])
  BY DEF Lines, Starts, Stops
<1>6. \A i \in Starts(T), j \in Stops(T) :
         i < j /\ (\A k \in LineEnds(T) : ~(i < k /\ k < j)) => <<i, j>> \in Lines(T)
  BY DEF Lines, Starts, Stops
<1>7. Starts(T) \subseteq Nat /\ Stops(T) \subseteq Nat
  BY LineEndsFacts DEF Starts, Stops
<1>8. QED
  BY <1>4, <1>5, <1>6, <1>7

-----------------------------------------------------------------------------
(* What a tracker has found                                                *)

(* The position up to which the lines have been parsed.                    *)
Parsed(t) == t.fed - Len(t.buffer)

(* t's verdict is the one of the lines in `spans', none of them malformed. *)
FoundIn(t, T, spans) ==
    /\ \A s \in spans : ~Malformed(Line(T, s))
    /\ t.done <=> \E s \in spans : IsDone(Line(T, s))
    /\ t.prompt <=> \E s \in spans : GivesPrompt(Line(T, s))
    /\ t.completion <=> \E s \in spans : GivesCompletion(Line(T, s))
    /\ t.output = Cardinality({s \in spans : IsDelta(Line(T, s))})

(* While it reads: the buffer is what has come after the last parsed line. *)
Reads(t, T) ==
    /\ t.fed <= Len(T)
    /\ Parsed(t) \in Starts(T) /\ Parsed(t) <= t.fed
    /\ t.buffer = SubSeq(T, Parsed(t) + 1, t.fed)
    /\ FoundIn(t, T, Before(T, Parsed(t)))

(* ... at its end it has parsed every line, or it has failed for a reason. *)
TrackInv(t, T) ==
    /\ t.at \in {"reading", "parsing"} => Reads(t, T)
    /\ t.at = "reading" => LineEnds(t.buffer) = {}
    /\ t.at = "ended" => FoundIn(t, T, Lines(T))
    /\ t.at = "failed" => Says(T, Malformed) \/ TooLong(T)

LEMMA TrackInvReads ==
    ASSUME NEW T \in Seq(Pieces), NEW t \in Tracker, TrackInv(t, T)
    PROVE  ReadsAs(t, T)
<1>1. t.done \in BOOLEAN /\ t.prompt \in BOOLEAN /\ t.completion \in BOOLEAN
  BY DEF Tracker
<1>2. ASSUME t.at = "ended"
      PROVE  /\ ~Says(T, Malformed)
             /\ t.done = Says(T, IsDone)
             /\ t.prompt = Says(T, GivesPrompt)
             /\ t.completion = Says(T, GivesCompletion)
             /\ t.output = Cardinality({s \in Lines(T) : IsDelta(Line(T, s))})
  <2>1. FoundIn(t, T, Lines(T))
    BY <1>2 DEF TrackInv
  <2>2. ~Says(T, Malformed)
    BY <2>1 DEF FoundIn, Says
  <2>3. t.done = Says(T, IsDone)
    BY <1>1, <2>1 DEF FoundIn, Says
  <2>4. t.prompt = Says(T, GivesPrompt)
    BY <1>1, <2>1 DEF FoundIn, Says
  <2>5. t.completion = Says(T, GivesCompletion)
    BY <1>1, <2>1 DEF FoundIn, Says
  <2>6. QED
    BY <2>1, <2>2, <2>3, <2>4, <2>5 DEF FoundIn
<1>3. t.at = "failed" => Says(T, Malformed) \/ TooLong(T)
  BY DEF TrackInv
<1>4. QED
  BY <1>2, <1>3 DEF ReadsAs

(* A new tracker has found nothing yet.                                    *)
LEMMA NewTrackerInv ==
    ASSUME NEW T \in Seq(Pieces)
    PROVE  NewTracker \in Tracker /\ TrackInv(NewTracker, T)
<1> DEFINE t == NewTracker
<1>1. /\ t.at = "reading" /\ t.fed = 0 /\ t.buffer = <<>> /\ t.output = 0
      /\ ~t.done /\ ~t.prompt /\ ~t.completion
      /\ t \in Tracker
  BY DEF NewTracker, Tracker
<1> HIDE DEF t
<1>2. Parsed(t) = 0 /\ Len(T) \in Nat /\ LineEnds(t.buffer) = {}
  <2>1. Len(t.buffer) = 0
    BY <1>1
  <2>2. LineEnds(t.buffer) = {}
    BY <2>1 DEF LineEnds
  <2>3. 0 - 0 = 0
    OBVIOUS
  <2>4. Parsed(t) = 0
    BY <1>1, <2>1, <2>3 DEF Parsed
  <2>5. QED
    BY <2>2, <2>4
<1>3. Before(T, 0) = {}
  BY LinesFacts DEF Before
<1>4. FoundIn(t, T, Before(T, 0))
  BY <1>1, <1>3, FS_EmptySet DEF FoundIn
<1>5. t.buffer = SubSeq(T, 1, 0)
  BY <1>1, SubSeqEmpty
<1>6. Reads(t, T)
  BY <1>1, <1>2, <1>4, <1>5 DEF Reads, Starts
<1>7. QED
  BY <1>1, <1>2, <1>6 DEF TrackInv, t

(* Parsing one line more.                                                  *)
LEMMA OneLineMore ==
    ASSUME NEW T \in Seq(Pieces), NEW t \in Tracker,
           NEW spans \in SUBSET Lines(T), FoundIn(t, T, spans),
           NEW s \in Lines(T), s \notin spans
    PROVE  LET u == parse_line(t, Line(T, s))
           IN  /\ u \in Tracker
               /\ u.fed = t.fed /\ u.buffer = t.buffer
               /\ \/ u.at = "failed" /\ Malformed(Line(T, s))
                  \/ u.at = t.at /\ FoundIn(u, T, spans \cup {s})
<1> DEFINE line == Line(T, s)
           u == parse_line(t, line)
<1>1. CASE Malformed(line)
  <2>1. u = [t EXCEPT !.at = "failed"]
    BY <1>1 DEF parse_line
  <2>2. u \in Tracker /\ u.fed = t.fed /\ u.buffer = t.buffer /\ u.at = "failed"
    BY <2>1 DEF Tracker
  <2>3. QED
    BY <1>1, <2>2
<1>2. CASE ~Malformed(line)
  <2> DEFINE delta == IsDelta(line)
             deltas == {x \in spans : IsDelta(Line(T, x))}
  <2>0. /\ t.done \in BOOLEAN /\ t.prompt \in BOOLEAN /\ t.completion \in BOOLEAN
        /\ t.output \in Nat
    BY DEF Tracker
  <2> DEFINE done == t.done \/ IsDone(line)
             prompt == t.prompt \/ GivesPrompt(line)
             completion == t.completion \/ GivesCompletion(line)
             output == IF delta THEN t.output + 1 ELSE t.output
  <2>1. u = [t EXCEPT !.done = done, !.prompt = prompt, !.completion = completion,
                      !.output = output]
    BY <1>2 DEF parse_line, IsDone, GivesPrompt, GivesCompletion, IsDelta
  <2>2. /\ done \in BOOLEAN /\ prompt \in BOOLEAN /\ completion \in BOOLEAN
        /\ output \in Nat
    BY <2>0
  <2> HIDE DEF line, u
  <2>3. done <=> \E x \in spans \cup {s} : IsDone(Line(T, x))
    BY DEF FoundIn, line
  <2>4. prompt <=> \E x \in spans \cup {s} : GivesPrompt(Line(T, x))
    BY DEF FoundIn, line
  <2>5. completion <=> \E x \in spans \cup {s} : GivesCompletion(Line(T, x))
    BY DEF FoundIn, line
  <2>6. \A x \in spans \cup {s} : ~Malformed(Line(T, x))
    BY <1>2 DEF FoundIn, line
  <2>7. output = Cardinality({x \in spans \cup {s} : IsDelta(Line(T, x))})
    <3>1. IsFiniteSet(deltas) /\ s \notin deltas /\ t.output = Cardinality(deltas)
      BY LinesFacts, FS_Subset DEF FoundIn
    <3>2. {x \in spans \cup {s} : IsDelta(Line(T, x))}
            = IF delta THEN deltas \cup {s} ELSE deltas
      BY DEF line
    <3> HIDE DEF deltas
    <3>3. CASE delta
      BY <3>1, <3>2, <3>3, FS_AddElement
    <3>4. CASE ~delta
      BY <3>1, <3>2, <3>4
    <3>5. QED
      BY <3>3, <3>4
  <2> HIDE DEF done, prompt, completion, output
  <2>8. /\ u \in Tracker /\ u.fed = t.fed /\ u.buffer = t.buffer /\ u.at = t.at
        /\ u.done = done /\ u.prompt = prompt /\ u.completion = completion
        /\ u.output = output
    BY <2>1, <2>2 DEF Tracker
  <2>9. FoundIn(u, T, spans \cup {s})
    BY <2>3, <2>4, <2>5, <2>6, <2>7, <2>8 DEF FoundIn
  <2>10. QED
    BY <2>8, <2>9 DEF line, u
<1>3. QED
  BY <1>1, <1>2

-----------------------------------------------------------------------------
(* feed, parse_next and finish keep it                                     *)

(* The line that starts where parsing has stopped: it ends at the next     *)
(* line end of the text, or with the text.                                 *)
LEMMA NextLine ==
    ASSUME NEW T \in Seq(Pieces), NEW p \in Starts(T), NEW j \in Stops(T), p < j,
           \A k \in LineEnds(T) : ~(p < k /\ k < j)
    PROVE  /\ <<p, j>> \in Lines(T) /\ <<p, j>> \notin Before(T, p)
           /\ Before(T, j) = Before(T, p) \cup {<<p, j>>}
<1>0. /\ Len(T) \in Nat /\ LineEnds(T) \subseteq 1..Len(T)
      /\ p \in Nat /\ j \in Nat
  BY LineEndsFacts DEF Starts, Stops
<1>1. <<p, j>> \in Lines(T)
  BY LinesFacts
<1>2. <<p, j>> \notin Before(T, p)
  BY <1>0 DEF Before
<1>3. ASSUME NEW s \in Before(T, j), s \notin Before(T, p)
      PROVE  s = <<p, j>>
  <2>1. /\ s \in Lines(T) /\ s = <<s[1], s[2]>>
        /\ s[1] \in Starts(T) /\ s[2] \in Stops(T)
        /\ s[1] \in Nat /\ s[2] \in Nat /\ s[1] < s[2]
        /\ \A k \in LineEnds(T) : ~(s[1] < k /\ k < s[2])
        /\ s[2] <= j /\ p < s[2]
    BY <1>0, <1>3, LinesFacts DEF Before
  <2>2. s[2] = j
    <3>1. s[2] \in LineEnds(T) => s[2] = j
      BY <1>0, <2>1
    <3>2. s[2] = Len(T) + 1 => s[2] = j
      BY <1>0, <2>1 DEF Stops
    <3>3. QED
      BY <2>1, <3>1, <3>2 DEF Stops
  <2>3. s[1] = p
    <3>1. ~(p < s[1])
      BY <1>0, <2>1, <2>2 DEF Starts
    <3>2. ~(s[1] < p)
      BY <1>0, <2>1 DEF Starts
    <3>3. QED
      BY <1>0, <2>1, <3>1, <3>2
  <2>4. QED
    BY <2>1, <2>2, <2>3
<1>4. <<p, j>> \in Before(T, j) /\ Before(T, p) \subseteq Before(T, j)
  <2>1. <<p, j>>[2] <= j
    BY <1>0
  <2>2. \A s \in Lines(T) : s[2] <= p => s[2] <= j
    BY <1>0, LinesFacts
  <2>3. QED
    BY <1>1, <2>1, <2>2 DEF Before
<1>5. QED
  BY <1>1, <1>2, <1>3, <1>4

(* A chunk moves nothing but the end of the buffer.                        *)
LEMMA FeedInv ==
    ASSUME NEW T \in Seq(Pieces), NEW t \in Tracker, TrackInv(t, T),
           t.at = "reading", NEW n \in 1..(Len(T) - t.fed)
    PROVE  LET u == feed(t, SubSeq(T, t.fed + 1, t.fed + n))
           IN  /\ u \in Tracker /\ TrackInv(u, T) /\ u.fed <= Len(T)
               /\ u.at # "reading"
<1> DEFINE p == Parsed(t)
           fed == t.fed + n
           chunk == SubSeq(T, t.fed + 1, fed)
           u == feed(t, chunk)
           whole == SubSeq(T, p + 1, fed)
<1>0. /\ Len(T) \in Nat /\ t.fed \in Nat /\ n \in Nat /\ fed \in Nat /\ fed <= Len(T)
      /\ t.fed <= fed
  BY DEF Tracker
<1>1. /\ Reads(t, T) /\ p \in Starts(T) /\ p <= t.fed
      /\ t.buffer = SubSeq(T, p + 1, t.fed)
      /\ p \in Nat
      /\ FoundIn(t, T, Before(T, p))
  BY LineEndsFacts DEF TrackInv, Reads, Starts
<1> HIDE DEF p
<1>2. t.buffer \o chunk = whole
  <2> DEFINE m == t.fed
  <2>1. m \in Nat /\ fed \in Nat /\ p \in Nat /\ p <= m /\ m <= fed /\ fed <= Len(T)
    BY <1>0, <1>1
  <2> HIDE DEF fed, m
  <2>2. SubSeq(T, p + 1, m) \o SubSeq(T, m + 1, fed) = SubSeq(T, p + 1, fed)
    BY <2>1, PartsMeet
  <2>3. QED
    BY <1>1, <2>2 DEF m
<1>3. Len(chunk) = n
  <2>1. Len(chunk) = fed - t.fed
    BY <1>0, PartFacts
  <2>2. QED
    BY <1>0, <2>1
<1>4. /\ whole \in Seq(Pieces) /\ Len(whole) = fed - p
      /\ \A i : i \in LineEnds(whole) <=> i \in 1..(fed - p) /\ p + i \in LineEnds(T)
  <2> HIDE DEF fed
  <2>1. p <= fed
    BY <1>0, <1>1
  <2>2. QED
    BY <1>0, <1>1, <2>1, PartFacts
<1> DEFINE failed == \/ fed > MaxBytes
                     \/ Len(whole) > MaxLine /\ LineEnds(whole) = {}
<1>5. u = [t EXCEPT !.fed = fed, !.buffer = whole,
                    !.at = IF failed THEN "failed" ELSE "parsing"]
  BY <1>2, <1>3 DEF feed, buffered
<1> HIDE DEF whole, failed, u, fed
<1>6. /\ u \in Tracker
      /\ u.fed = fed /\ u.buffer = whole
      /\ u.at = IF failed THEN "failed" ELSE "parsing"
      /\ u.done = t.done /\ u.prompt = t.prompt /\ u.completion = t.completion
      /\ u.output = t.output
  BY <1>0, <1>4, <1>5 DEF Tracker
<1>7. ASSUME failed
      PROVE  TooLong(T)
  <2>0. MaxBytes \in Nat /\ MaxLine \in Nat
    BY StreamingAssumption
  <2>1. CASE fed > MaxBytes
    BY <1>0, <2>0, <2>1 DEF TooLong
  <2>2. CASE Len(whole) > MaxLine /\ LineEnds(whole) = {}
    <3> DEFINE next == {k \in Stops(T) : p < k}
    <3>1. /\ IsFiniteSet(next) /\ next \subseteq Nat /\ next # {}
      <4>1. IsFiniteSet(Stops(T)) /\ Stops(T) \subseteq Nat
        <5> DEFINE end == Len(T) + 1
        <5>1. end \in Nat
          BY <1>0
        <5> HIDE DEF end
        <5>2. IsFiniteSet({end}) /\ {end} \subseteq Nat
          BY <5>1, FS_Singleton
        <5>3. IsFiniteSet(LineEnds(T)) /\ LineEnds(T) \subseteq Nat
          BY LineEndsFacts
        <5>4. IsFiniteSet(LineEnds(T) \cup {end})
          BY <5>2, <5>3, FS_Union
        <5>5. QED
          BY <5>2, <5>3, <5>4 DEF Stops, end
      <4>2. Len(T) + 1 \in next
        BY <1>0, <1>1 DEF Stops
      <4>3. QED
        BY <4>1, <4>2, FS_Subset
    <3>2. PICK j \in next : \A k \in next : j <= k
      <4> HIDE DEF next
      <4>1. QED
        BY <3>1, LeastElement
    <3>3. j \in Stops(T) /\ p < j /\ j \in Nat
      BY <3>1, <3>2
    <3>4. \A k \in LineEnds(T) : ~(p < k /\ k < j)
      <4>1. SUFFICES ASSUME NEW k \in LineEnds(T), p < k, k < j PROVE FALSE
        OBVIOUS
      <4>2. k \in next /\ k \in Nat
        BY <3>1, <4>1 DEF Stops
      <4>3. QED
        BY <3>2, <3>3, <4>1, <4>2
    <3>5. <<p, j>> \in Lines(T)
      BY <1>1, <3>3, <3>4, NextLine
    <3>6. fed < j
      <4>1. SUFFICES ASSUME j <= fed PROVE FALSE
        BY <1>0, <3>3
      <4>2. j \in LineEnds(T)
        BY <1>0, <3>3, <4>1 DEF Stops
      <4>3. j - p \in 1..(fed - p) /\ p + (j - p) = j
        BY <1>0, <1>1, <3>3, <4>1
      <4>4. j - p \in LineEnds(whole)
        BY <1>4, <4>2, <4>3
      <4>5. QED
        BY <2>2, <4>4
    <3>7. j - p - 1 > MaxLine
      BY <1>0, <1>1, <1>4, <2>0, <2>2, <3>3, <3>6
    <3>8. <<p, j>>[2] - <<p, j>>[1] - 1 > MaxLine
      BY <3>7
    <3>9. QED
      BY <3>5, <3>8 DEF TooLong
  <2>3. QED
    BY <1>7, <2>1, <2>2 DEF failed
<1>8. ASSUME ~failed
      PROVE  Reads(u, T)
  <2>1. Parsed(u) = p
    BY <1>0, <1>1, <1>4, <1>6 DEF Parsed
  <2>2. FoundIn(u, T, Before(T, p))
    BY <1>1, <1>6 DEF FoundIn
  <2>3. QED
    BY <1>0, <1>1, <1>6, <2>1, <2>2 DEF Reads, whole
<1>9. TrackInv(u, T) /\ u.at # "reading"
  BY <1>6, <1>7, <1>8 DEF TrackInv
<1>10. QED
  BY <1>0, <1>6, <1>9 DEF u, fed

(* Parsing takes the first line of the buffer, or there is none.           *)
LEMMA ParseInv ==
    ASSUME NEW T \in Seq(Pieces), NEW t \in Tracker, TrackInv(t, T),
           t.at = "parsing"
    PROVE  LET u == parse_next(t)
           IN  u \in Tracker /\ TrackInv(u, T) /\ u.fed = t.fed
<1> DEFINE p == Parsed(t)
           buffer == t.buffer
<1>0. /\ Len(T) \in Nat /\ t.fed \in Nat /\ buffer \in Seq(Pieces)
  BY DEF Tracker
<1>1. /\ p \in Starts(T) /\ p <= t.fed /\ t.fed <= Len(T) /\ p \in Nat
      /\ t.buffer = SubSeq(T, p + 1, t.fed)
      /\ FoundIn(t, T, Before(T, p))
  BY LineEndsFacts DEF TrackInv, Reads, Starts
<1>2. /\ Len(buffer) = t.fed - p
      /\ \A i : i \in LineEnds(buffer) <=> i \in 1..(t.fed - p) /\ p + i \in LineEnds(T)
  BY <1>0, <1>1, PartFacts
<1>3. CASE LineEnds(buffer) = {}
  <2> DEFINE u == [t EXCEPT !.at = "reading"]
  <2>1. parse_next(t) = u
    BY <1>3 DEF parse_next
  <2>2. /\ u \in Tracker /\ u.at = "reading" /\ u.fed = t.fed /\ u.buffer = t.buffer
        /\ u.done = t.done /\ u.prompt = t.prompt /\ u.completion = t.completion
        /\ u.output = t.output
    BY DEF Tracker
  <2> HIDE DEF u
  <2>3. Reads(u, T)
    BY <1>1, <2>2 DEF Reads, FoundIn, Parsed
  <2>4. QED
    BY <1>3, <2>1, <2>2, <2>3 DEF TrackInv
<1>4. CASE LineEnds(buffer) # {}
  <2> DEFINE i == FirstLineEnd(buffer)
             rest == SubSeq(buffer, i + 1, Len(buffer))
             line == SubSeq(buffer, 1, i - 1)
             j == p + i
             v == [t EXCEPT !.buffer = rest]
  <2>1. parse_next(t) = parse_line(v, line)
    BY <1>4 DEF parse_next
  <2>2. i \in LineEnds(buffer) /\ \A k \in LineEnds(buffer) : i <= k
    BY <1>0, <1>4, FirstLineEndIs
  <2> HIDE DEF p, buffer, i
  <2>3. /\ i \in 1..(t.fed - p) /\ j \in LineEnds(T) /\ j \in Nat /\ j <= t.fed
        /\ i \in Nat
    BY <1>0, <1>1, <1>2, <2>2
  <2>4. \A k \in LineEnds(T) : ~(p < k /\ k < j)
    <3>1. SUFFICES ASSUME NEW k \in LineEnds(T), p < k, k < j PROVE FALSE
      OBVIOUS
    <3>2. k \in Nat
      BY LineEndsFacts
    <3>3. k - p \in 1..(t.fed - p) /\ p + (k - p) = k
      BY <1>0, <1>1, <2>3, <3>1, <3>2
    <3>4. k - p \in LineEnds(buffer)
      BY <1>2, <3>3
    <3>5. i <= k - p
      BY <2>2, <3>4
    <3>6. QED
      BY <1>1, <2>3, <3>1, <3>2, <3>5
  <2>5. /\ <<p, j>> \in Lines(T) /\ <<p, j>> \notin Before(T, p)
        /\ Before(T, j) = Before(T, p) \cup {<<p, j>>}
    BY <1>1, <2>3, <2>4, NextLine DEF Stops
  <2>6. rest = SubSeq(T, j + 1, t.fed) /\ Len(rest) = t.fed - j
    <3>1. Len(buffer) = t.fed - p
      BY <1>2
    <3> DEFINE width == t.fed - p
    <3>2. /\ i \in Nat /\ i <= width /\ width \in Nat /\ width <= t.fed - p
          /\ p + i = j /\ p + width = t.fed
      BY <1>0, <1>1, <2>3
    <3>3. Len(buffer) = width
      BY <3>1
    <3> HIDE DEF width, j
    <3>4. SubSeq(SubSeq(T, p + 1, t.fed), i + 1, width) = SubSeq(T, p + i + 1, p + width)
      BY <1>0, <1>1, <3>2, PartOfPart
    <3>5. rest = SubSeq(T, j + 1, t.fed)
      BY <1>1, <3>2, <3>3, <3>4 DEF buffer
    <3> HIDE DEF rest
    <3>6. QED
      BY <1>0, <1>1, <2>3, <3>5, PartFacts
  <2>7. line = Line(T, <<p, j>>)
    <3>1. Line(T, <<p, j>>) = SubSeq(T, p + 1, j - 1)
      BY DEF Line
    <3> DEFINE none == 0
               last == i - 1
    <3>2. /\ none \in Nat /\ none + 1 = 1 /\ p + none = p
          /\ last \in Nat /\ none <= last /\ last <= t.fed - p /\ p + last = j - 1
      BY <1>0, <1>1, <2>3
    <3>3. line = SubSeq(buffer, 1, last)
      OBVIOUS
    <3> HIDE DEF none, last, line, j
    <3>4. SubSeq(SubSeq(T, p + 1, t.fed), none + 1, last)
            = SubSeq(T, p + none + 1, p + last)
      BY <1>0, <1>1, <3>2, PartOfPart
    <3>5. QED
      BY <1>1, <3>1, <3>2, <3>3, <3>4 DEF buffer
  <2>8. rest \in Seq(Pieces)
    <3> HIDE DEF rest, j
    <3>1. SubSeq(T, j + 1, t.fed) \in Seq(Pieces)
      BY <1>0, <1>1, <2>3, PartFacts
    <3>2. QED
      BY <2>6, <3>1
  <2> HIDE DEF rest, line, j
  <2>9. /\ v \in Tracker /\ v.at = "parsing" /\ v.fed = t.fed /\ v.buffer = rest
        /\ v.done = t.done /\ v.prompt = t.prompt /\ v.completion = t.completion
        /\ v.output = t.output
    BY <2>8 DEF Tracker
  <2> HIDE DEF v
  <2>10. FoundIn(v, T, Before(T, p)) /\ Before(T, p) \in SUBSET Lines(T)
    BY <1>1, <2>9 DEF FoundIn, Before
  <2> DEFINE u == parse_line(v, line)
  <2>11. /\ u \in Tracker /\ u.fed = t.fed /\ u.buffer = rest
         /\ \/ u.at = "failed" /\ Malformed(Line(T, <<p, j>>))
            \/ u.at = "parsing" /\ FoundIn(u, T, Before(T, j))
    <3>1. LET w == parse_line(v, Line(T, <<p, j>>))
          IN  /\ w \in Tracker
              /\ w.fed = v.fed /\ w.buffer = v.buffer
              /\ \/ w.at = "failed" /\ Malformed(Line(T, <<p, j>>))
                 \/ w.at = v.at /\ FoundIn(w, T, Before(T, p) \cup {<<p, j>>})
      BY <2>5, <2>9, <2>10, OneLineMore
    <3>2. QED
      BY <2>5, <2>7, <2>9, <3>1
  <2> HIDE DEF u
  <2>12. CASE u.at = "failed" /\ Malformed(Line(T, <<p, j>>))
    <3>1. Says(T, Malformed)
      BY <2>5, <2>12 DEF Says
    <3>2. QED
      BY <2>1, <2>11, <2>12, <3>1 DEF TrackInv, u
  <2>13. CASE u.at = "parsing" /\ FoundIn(u, T, Before(T, j))
    <3>1. Parsed(u) = j
      BY <1>0, <2>3, <2>6, <2>11 DEF Parsed
    <3>2. Reads(u, T)
      BY <1>1, <2>3, <2>6, <2>11, <2>13, <3>1 DEF Reads, Starts
    <3>3. QED
      BY <2>1, <2>11, <2>13, <3>2 DEF TrackInv, u
  <2>14. QED
    BY <2>11, <2>12, <2>13
<1>5. QED
  BY <1>3, <1>4

(* The end of the stream ends the last line.                               *)
LEMMA FinishInv ==
    ASSUME NEW T \in Seq(Pieces), NEW t \in Tracker, TrackInv(t, T),
           t.at = "reading", t.fed = Len(T)
    PROVE  LET u == finish(t)
           IN  /\ u \in Tracker /\ TrackInv(u, T) /\ u.fed = t.fed
               /\ u.at # "reading"
<1> DEFINE p == Parsed(t)
           j == Len(T) + 1
           v == [t EXCEPT !.at = "ended"]
           w == parse_line(v, t.buffer)
<1>0. Len(T) \in Nat /\ t.fed \in Nat
  BY DEF Tracker
<1>1. /\ p \in Starts(T) /\ p <= Len(T) /\ p \in Nat
      /\ t.buffer = SubSeq(T, p + 1, Len(T))
      /\ FoundIn(t, T, Before(T, p))
      /\ LineEnds(t.buffer) = {}
  BY LineEndsFacts DEF TrackInv, Reads, Starts
<1>2. \A i : i \in LineEnds(t.buffer) <=> i \in 1..(Len(T) - p) /\ p + i \in LineEnds(T)
  BY <1>0, <1>1, PartFacts
<1> HIDE DEF p
<1>3. \A k \in LineEnds(T) : ~(p < k /\ k < j)
  <2>1. SUFFICES ASSUME NEW k \in LineEnds(T), p < k PROVE FALSE
    OBVIOUS
  <2>2. k \in Nat /\ k <= Len(T)
    BY LineEndsFacts
  <2>3. k - p \in 1..(Len(T) - p) /\ p + (k - p) = k
    BY <1>0, <1>1, <2>1, <2>2
  <2>4. QED
    BY <1>1, <1>2, <2>3
<1>4. /\ <<p, j>> \in Lines(T) /\ <<p, j>> \notin Before(T, p)
      /\ Before(T, j) = Before(T, p) \cup {<<p, j>>}
  BY <1>0, <1>1, <1>3, NextLine DEF Stops
<1>5. Before(T, j) = Lines(T)
  <2>1. \A s \in Lines(T) : s[2] <= j
    <3>1. SUFFICES ASSUME NEW s \in Lines(T) PROVE s[2] <= j
      OBVIOUS
    <3>2. s[2] \in Stops(T)
      BY LinesFacts
    <3>3. QED
      BY <1>0, <3>2, LineEndsFacts DEF Stops
  <2>2. QED
    BY <2>1 DEF Before
<1>6. t.buffer = Line(T, <<p, j>>)
  <2>1. j - 1 = Len(T)
    BY <1>0
  <2>2. QED
    BY <1>1, <2>1 DEF Line
<1> HIDE DEF j
<1>7. /\ v \in Tracker /\ v.at = "ended" /\ v.fed = t.fed
      /\ v.done = t.done /\ v.prompt = t.prompt /\ v.completion = t.completion
      /\ v.output = t.output
  BY DEF Tracker
<1> HIDE DEF v
<1>8. FoundIn(v, T, Before(T, p)) /\ Before(T, p) \in SUBSET Lines(T)
  BY <1>1, <1>7 DEF FoundIn, Before
<1>9. /\ w \in Tracker /\ w.fed = t.fed
      /\ \/ w.at = "failed" /\ Malformed(Line(T, <<p, j>>))
         \/ w.at = "ended" /\ FoundIn(w, T, Lines(T))
  <2>1. LET x == parse_line(v, Line(T, <<p, j>>))
        IN  /\ x \in Tracker
            /\ x.fed = v.fed /\ x.buffer = v.buffer
            /\ \/ x.at = "failed" /\ Malformed(Line(T, <<p, j>>))
               \/ x.at = v.at /\ FoundIn(x, T, Before(T, p) \cup {<<p, j>>})
    BY <1>4, <1>7, <1>8, OneLineMore
  <2>2. QED
    BY <1>4, <1>5, <1>6, <1>7, <2>1
<1> DEFINE u == [w EXCEPT !.buffer = <<>>]
<1>10. finish(t) = u
  BY DEF finish, v
<1> HIDE DEF w
<1>11. /\ u \in Tracker /\ u.fed = t.fed /\ u.at = w.at
       /\ u.done = w.done /\ u.prompt = w.prompt /\ u.completion = w.completion
       /\ u.output = w.output
  <2>1. <<>> \in Seq(Pieces)
    OBVIOUS
  <2> DEFINE none == <<>>
  <2> HIDE DEF none
  <2>2. none \in Seq(Pieces) /\ u = [w EXCEPT !.buffer = none]
    BY <2>1 DEF none
  <2> HIDE DEF u
  <2>3. QED
    BY <1>9, <2>2 DEF Tracker
<1> HIDE DEF u
<1>12. CASE w.at = "failed" /\ Malformed(Line(T, <<p, j>>))
  <2>1. Says(T, Malformed)
    BY <1>4, <1>12 DEF Says
  <2>2. TrackInv(u, T)
    BY <1>11, <1>12, <2>1 DEF TrackInv
  <2>3. QED
    BY <1>10, <1>11, <1>12, <2>2
<1>13. CASE w.at = "ended" /\ FoundIn(w, T, Lines(T))
  <2>1. FoundIn(u, T, Lines(T))
    BY <1>11, <1>13 DEF FoundIn
  <2>2. TrackInv(u, T)
    BY <1>11, <1>13, <2>1 DEF TrackInv
  <2>3. QED
    BY <1>10, <1>11, <1>13, <2>2
<1>14. QED
  BY <1>9, <1>12, <1>13

-----------------------------------------------------------------------------
(* Every handler's tracker                                                 *)

(* What a tracker has found, for every request; and a tracker stays as it  *)
(* is once its stream has been handed over to be settled.                  *)
TrackersInv ==
    /\ text \in [Requests -> Texts \cup {<<>>}]
    /\ tracker \in [Requests -> Tracker]
    /\ \A r \in Requests :
          tracker[r].fed <= Len(text[r]) /\ TrackInv(tracker[r], text[r])

HandedOverInv ==
    \A r \in Requests : direct_upstream_stream(r) =>
        /\ outcome[r] # "ok"
        /\ pc[r] \in {"settle", "settling"} => complete(tracker[r])

LEMMA TextIsPieces ==
    ASSUME text \in [Requests -> Texts \cup {<<>>}], NEW r \in Requests
    PROVE  text[r] \in Seq(Pieces) /\ Len(text[r]) \in Nat
<1>1. <<>> \in Seq(Pieces)
  OBVIOUS
<1>2. text[r] \in Seq(Pieces)
  BY <1>1, TextsAssumption
<1>3. QED
  BY <1>2

LEMMA TrackersInit == StreamedInit => TrackersInv
<1> SUFFICES ASSUME StreamedInit PROVE TrackersInv
  OBVIOUS
<1>1. text \in [Requests -> Texts \cup {<<>>}] /\ tracker = [r \in Requests |-> NewTracker]
  BY DEF StreamedInit
<1>2. ASSUME NEW r \in Requests
      PROVE  /\ NewTracker \in Tracker /\ TrackInv(NewTracker, text[r])
             /\ NewTracker.fed <= Len(text[r])
  <2>1. text[r] \in Seq(Pieces) /\ Len(text[r]) \in Nat
    BY <1>1, TextIsPieces
  <2>2. NewTracker.fed = 0
    BY DEF NewTracker
  <2>3. QED
    BY <2>1, <2>2, NewTrackerInv
<1>3. QED
  BY <1>1, <1>2 DEF TrackersInv

(* One tracker takes a step, and the others and the texts stay.            *)
LEMMA OneTracks ==
    ASSUME TrackersInv, NEW r \in Requests, NEW t \in Tracker,
           TrackInv(t, text[r]), t.fed <= Len(text[r]), Tracks(r, t)
    PROVE  TrackersInv'
  BY DEF TrackersInv, Tracks

LEMMA TrackersStep ==
    TrackersInv /\ [StreamedNext]_<<gatewayVars, streamVars>> => TrackersInv'
<1> SUFFICES ASSUME TrackersInv, [StreamedNext]_<<gatewayVars, streamVars>>
             PROVE  TrackersInv'
  OBVIOUS
<1>0. ASSUME NEW r \in Requests
      PROVE  /\ text[r] \in Seq(Pieces) /\ Len(text[r]) \in Nat
             /\ tracker[r] \in Tracker /\ tracker[r].fed \in Nat
             /\ tracker[r].fed <= Len(text[r]) /\ TrackInv(tracker[r], text[r])
  BY TextIsPieces DEF TrackersInv, Tracker
<1>1. ASSUME NEW r \in Requests, stream_opens(r)
      PROVE  TrackersInv'
  <2>1. PICK sent \in Texts : text' = [text EXCEPT ![r] = sent]
    BY <1>1 DEF stream_opens
  <2>2. tracker' = [tracker EXCEPT ![r] = NewTracker]
    BY <1>1 DEF stream_opens
  <2>3. sent \in Seq(Pieces) /\ Len(sent) \in Nat
    BY TextsAssumption
  <2>4. NewTracker \in Tracker /\ TrackInv(NewTracker, sent)
    BY <2>3, NewTrackerInv
  <2>5. NewTracker.fed <= Len(sent)
    BY <2>3 DEF NewTracker
  <2>6. QED
    BY <2>1, <2>2, <2>4, <2>5 DEF TrackersInv
<1>2. ASSUME NEW r \in Requests, receives(r)
      PROVE  TrackersInv'
  <2>1. PICK n \in 1..(Len(text[r]) - tracker[r].fed) :
           Tracks(r, feed(tracker[r],
                          SubSeq(text[r], tracker[r].fed + 1, tracker[r].fed + n)))
    BY <1>2 DEF receives
  <2> DEFINE u == feed(tracker[r],
                       SubSeq(text[r], tracker[r].fed + 1, tracker[r].fed + n))
  <2>2. u \in Tracker /\ TrackInv(u, text[r]) /\ u.fed <= Len(text[r])
    BY <1>0, <1>2, FeedInv DEF receives
  <2>3. QED
    BY <2>1, <2>2, OneTracks
<1>3. ASSUME NEW r \in Requests, parses(r)
      PROVE  TrackersInv'
  <2> DEFINE u == parse_next(tracker[r])
  <2>1. u \in Tracker /\ TrackInv(u, text[r]) /\ u.fed = tracker[r].fed
    BY <1>0, <1>3, ParseInv DEF parses
  <2>2. QED
    BY <1>0, <1>3, <2>1, OneTracks DEF parses
<1>4. ASSUME NEW r \in Requests, finishes(r)
      PROVE  TrackersInv'
  <2> DEFINE u == finish(tracker[r])
  <2>1. u \in Tracker /\ TrackInv(u, text[r]) /\ u.fed = tracker[r].fed
    BY <1>0, <1>4, FinishInv DEF finishes
  <2>2. QED
    BY <1>0, <1>4, <2>1, OneTracks DEF finishes
<1>5. CASE UNCHANGED streamVars
  BY <1>5 DEF streamVars, TrackersInv
<1>6. QED
  BY <1>1, <1>2, <1>3, <1>4, <1>5
  DEF StreamedNext, stream_complete, stream_broken, stream_abandoned, settles,
      HandlerApart

(* For every text and every limit, and wherever the chunks end: trackers   *)
(* keep their type, have received no more than was sent, and hold no whole *)
(* line once a chunk is parsed.                                            *)
THEOREM StreamTypeCorrect == StreamedSpec => []StreamTypeOK
<1>1. TrackersInv => StreamTypeOK
  BY DEF TrackersInv, TrackInv, StreamTypeOK
<1>2. QED
  BY <1>1, TrackersInit, TrackersStep, PTL DEF StreamedSpec

(* Whatever a provider sends and wherever the network cuts it, the tracker *)
(* of streaming.py ends with what the whole stream says, and fails only on *)
(* a stream that is malformed or too long.                                 *)
THEOREM ChunksDoNotMatterHolds == StreamedSpec => []ChunksDoNotMatter
<1>1. TrackersInv => ChunksDoNotMatter
  BY TextIsPieces, TrackInvReads DEF TrackersInv, ChunksDoNotMatter
<1>2. QED
  BY <1>1, TrackersInit, TrackersStep, PTL DEF StreamedSpec

-----------------------------------------------------------------------------
(* Only whole streams are settled                                          *)

(* A handler's step moves no other handler; whether it is one of the       *)
(* stream's own or another, it reads and moves only its own request's.     *)
LEMMA OthersStay ==
    ASSUME HandlerInv, TrackersInv, NEW q \in Requests, NEW r \in Requests, q # r,
           \/ stream_opens(q) \/ receives(q) \/ parses(q) \/ finishes(q)
           \/ stream_complete(q) \/ stream_broken(q) \/ stream_abandoned(q)
           \/ settles(q) \/ HandlerApart(q)
    PROVE  pc'[r] = pc[r] /\ outcome'[r] = outcome[r] /\ tracker'[r] = tracker[r]
<1>1. CASE stream_opens(q)
  BY <1>1 DEF stream_opens, ProviderReturns, Goto, HandlerInv, HandlerType, TrackersInv
<1>2. CASE receives(q) \/ parses(q) \/ finishes(q)
  <2>1. pc' = pc /\ outcome' = outcome
    BY <1>2 DEF receives, parses, finishes, Tracks, gatewayVars, handlerVars
  <2>2. \E t : tracker' = [tracker EXCEPT ![q] = t]
    BY <1>2 DEF receives, parses, finishes, Tracks
  <2>3. QED
    BY <2>1, <2>2 DEF TrackersInv
<1>3. CASE \/ stream_complete(q) \/ stream_broken(q) \/ stream_abandoned(q)
           \/ settles(q) \/ HandlerApart(q)
  <2>1. tracker' = tracker
    BY <1>3 DEF stream_complete, stream_broken, stream_abandoned, settles,
                HandlerApart, streamVars
  <2>2. Handler(q)
    <3>1. settles(q) => Settle(q)
      BY DEF settles, Settle
    <3>2. QED
      BY <1>3, <3>1 DEF stream_complete, stream_broken, stream_abandoned,
                        HandlerApart, Handler
  <2>3. QED
    BY <2>1, <2>2, HandlerFrame DEF HandlerInv
<1>4. QED
  BY <1>1, <1>2, <1>3

LEMMA HandedOverOne ==
    ASSUME HandlerInv, TrackersInv, NEW r \in Requests, direct_upstream_stream(r),
           outcome[r] # "ok", pc[r] \in {"settle", "settling"} => complete(tracker[r]),
           \/ stream_opens(r) \/ receives(r) \/ parses(r) \/ finishes(r)
           \/ stream_complete(r) \/ stream_broken(r) \/ stream_abandoned(r)
           \/ settles(r) \/ HandlerApart(r)
    PROVE  /\ outcome'[r] # "ok"
           /\ pc'[r] \in {"settle", "settling"} => complete(tracker[r])'
<1>0. /\ pc \in [Requests -> Steps] /\ outcome \in [Requests -> Outcomes \cup {"none"}]
      /\ tracker \in [Requests -> Tracker]
  BY DEF HandlerInv, HandlerType, TrackersInv
<1>1. CASE stream_opens(r)
  BY <1>0, <1>1 DEF stream_opens, ProviderReturns, Goto
<1>2. CASE receives(r) \/ parses(r) \/ finishes(r)
  BY <1>0, <1>2 DEF receives, parses, finishes, Tracks, gatewayVars, handlerVars
<1>3. CASE stream_complete(r)
  BY <1>0, <1>3 DEF stream_complete, streamVars, StreamDone
<1>4. CASE stream_broken(r) \/ stream_abandoned(r) \/ settles(r)
  BY <1>0, <1>4 DEF stream_broken, stream_abandoned, settles, StreamBroken,
                    StreamAbandoned, Goto
<1>5. CASE HandlerApart(r)
  <2>1. tracker' = tracker
    BY <1>5 DEF HandlerApart, streamVars
  <2>2. CASE RecordAttempt(r)
    <3>1. outcome' = [outcome EXCEPT ![r] = "none"]
      BY <2>2 DEF RecordAttempt
    <3> DEFINE next == CASE outcome[r] = "ok"                   -> "settle"
                         [] outcome[r] = "opened"               -> "stream"
                         [] request_may_be_billable(outcome[r]) -> "mark"
                         [] FailsOver(r)                        -> "call"
                         [] OTHER                               -> "release"
    <3>2. pc' = [pc EXCEPT ![r] = next]
      BY <2>2 DEF RecordAttempt, Goto
    <3>3. next \in {"stream", "mark", "call", "release"}
      OBVIOUS
    <3> HIDE DEF next
    <3>4. QED
      BY <1>0, <3>1, <3>2, <3>3
  <2>3. CASE \E o \in Outcomes \ {"opened"} : ProviderReturns(r, o)
    BY <1>0, <2>3 DEF ProviderReturns, Goto
  <2>4. CASE BeginSettle(r)
    BY <1>0, <2>1, <2>4 DEF BeginSettle, BeginFinalize, Goto
  <2>5. CASE \/ Refuse(r) \/ Admit(r) \/ RecordAttemptFails(r) \/ SettleFails(r)
             \/ BeginMark(r) \/ Mark(r) \/ BeginRelease(r) \/ Release(r)
             \/ ReleaseFails(r) \/ Crash(r)
    BY <1>0, <2>5 DEF Refuse, Admit, RecordAttemptFails, SettleFails, BeginMark, Mark,
         BeginRelease, Release, ReleaseFails, Crash, BeginFinalize, Goto
  <2>6. QED
    BY <1>5, <2>2, <2>3, <2>4, <2>5 DEF HandlerApart
<1>6. QED
  BY <1>1, <1>2, <1>3, <1>4, <1>5

(* An operator leaves the handlers where they are.                         *)
LEMMA OperatorsApart ==
    ASSUME NEW o \in Operators, reconcile_request(o)
    PROVE  pc' = pc /\ outcome' = outcome
BY DEF reconcile_request, OperatorOpens, OperatorSettles, OperatorReleases,
       OperatorFails, handlerVars

LEMMA HandedOverInit == StreamedInit => HandedOverInv
  BY DEF StreamedInit, GatewayInit, HandedOverInv

LEMMA HandedOverStep ==
    HandlerInv /\ TrackersInv /\ HandedOverInv
      /\ [StreamedNext]_<<gatewayVars, streamVars>> => HandedOverInv'
<1> SUFFICES ASSUME HandlerInv, TrackersInv, HandedOverInv,
                    [StreamedNext]_<<gatewayVars, streamVars>>,
                    NEW r \in Requests, direct_upstream_stream(r)
             PROVE  /\ outcome'[r] # "ok"
                    /\ pc'[r] \in {"settle", "settling"} => complete(tracker[r])'
  BY DEF HandedOverInv, direct_upstream_stream
<1>1. outcome[r] # "ok" /\ (pc[r] \in {"settle", "settling"} => complete(tracker[r]))
  BY DEF HandedOverInv
<1>2. ASSUME NEW q \in Requests,
             \/ stream_opens(q) \/ receives(q) \/ parses(q) \/ finishes(q)
             \/ stream_complete(q) \/ stream_broken(q) \/ stream_abandoned(q)
             \/ settles(q) \/ HandlerApart(q)
      PROVE  /\ outcome'[r] # "ok"
             /\ pc'[r] \in {"settle", "settling"} => complete(tracker[r])'
  <2>1. CASE q = r
    BY <1>1, <1>2, <2>1, HandedOverOne
  <2>2. CASE q # r
    BY <1>1, <1>2, <2>2, OthersStay DEF complete
  <2>3. QED
    BY <2>1, <2>2
<1>3. CASE UNCHANGED <<pc, outcome, tracker>>
  BY <1>1, <1>3 DEF complete
<1>4. QED
  BY <1>2, <1>3, OperatorsApart
  DEF StreamedNext, run_once, handlerVars, gatewayVars, streamVars

(* What settling a handler's request writes into its row.                  *)
LEMMA SettledInput ==
    ASSUME TypeOK, TrailsInv, TrackersInv, NEW r \in Requests, direct_upstream_stream(r),
           settles(r)
    PROVE  IF tracker[r].prompt
           THEN request'[r].input_tokens \in
                   {response.input : response \in {s \in Responses : ~s.estimated}}
           ELSE request'[r].input_tokens = request[r].input_tokens
<1>1. PICK t \in open, response \in Responses, upstream_cost \in UpstreamCosts :
         /\ t.session = r
         /\ response.estimated = estimated_input(tracker[r])
         /\ settle_model_request(t, response, upstream_cost)
  BY DEF settles
<1>2. t.req = r
  BY <1>1 DEF TrailsInv, OpenInv
<1> DEFINE usage == usage_from_response(response, request[r].input_tokens)
<1>3. PICK status, charged :
         request' = [request EXCEPT ![r] =
                       [request[r] EXCEPT !.status = status, !.charged = charged,
                                          !.input_tokens = usage.input,
                                          !.output_tokens = usage.output]]
  BY <1>1, <1>2 DEF settle_model_request, Finalize
<1>4. request \in [Requests -> RequestRow]
  BY DEF TypeOK
<1> HIDE DEF usage
<1>5. request'[r].input_tokens = usage.input
  BY <1>3, <1>4 DEF RequestRow
<1>6. usage.input = IF response.estimated THEN request[r].input_tokens ELSE response.input
  BY DEF usage, usage_from_response
<1>7. tracker[r].prompt \in BOOLEAN
  BY DEF TrackersInv, Tracker
<1>8. QED
  BY <1>1, <1>5, <1>6, <1>7 DEF estimated_input

(* A step that ends a settlement is settles, of that handler.              *)
LEMMA SettlesIs ==
    ASSUME HandlerInv, TrackersInv, [StreamedNext]_<<gatewayVars, streamVars>>,
           NEW r \in Requests, pc[r] = "settling", pc'[r] = "done"
    PROVE  settles(r)
<1>0. pc \in [Requests -> Steps]
  BY DEF HandlerInv, HandlerType
<1>1. PICK q \in Requests :
         \/ stream_opens(q) \/ receives(q) \/ parses(q) \/ finishes(q)
         \/ stream_complete(q) \/ stream_broken(q) \/ stream_abandoned(q)
         \/ settles(q) \/ HandlerApart(q)
  BY OperatorsApart DEF StreamedNext, run_once, handlerVars, gatewayVars
<1>2. q = r
  BY <1>1, OthersStay
<1>3. ~HandlerApart(r)
  <2>1. ~RecordAttempt(r)
    BY DEF RecordAttempt
  <2>2. QED
    BY <1>0, <2>1 DEF HandlerApart, Refuse, Admit, ProviderReturns,
         RecordAttemptFails, BeginSettle, SettleFails, BeginMark, Mark, BeginRelease,
         Release, ReleaseFails, Crash, BeginFinalize, Goto
<1>4. QED
  BY <1>0, <1>1, <1>2, <1>3
  DEF stream_opens, ProviderReturns, receives, parses, finishes, stream_complete,
      stream_broken, stream_abandoned, StreamDone, StreamBroken, StreamAbandoned

(* A streamed request is settled only on a whole stream, to its [DONE],    *)
(* and for the input that the stream reports whenever it reports one, for  *)
(* every text, cut and number of requests.                                 *)
THEOREM SettlesWholeStreamsHolds == StreamedSpec => SettlesWholeStreams
<1> DEFINE Settling(r) ==
             /\ direct_upstream_stream(r)
             /\ pc[r] = "settling" /\ pc'[r] = "done"
             => /\ Says(text[r], IsDone) /\ ~Says(text[r], Malformed)
                /\ IF Says(text[r], GivesPrompt)
                   THEN request'[r].input_tokens \in
                           {response.input : response \in {s \in Responses : ~s.estimated}}
                   ELSE request'[r].input_tokens = request[r].input_tokens
<1>1. TypeOK /\ HandlerInv /\ TrailsInv /\ TrackersInv /\ HandedOverInv
        /\ [StreamedNext]_<<gatewayVars, streamVars>>
        => [\A r \in Requests : Settling(r)]_<<gatewayVars, streamVars>>
  <2> SUFFICES ASSUME TypeOK, HandlerInv, TrailsInv, TrackersInv, HandedOverInv,
                      [StreamedNext]_<<gatewayVars, streamVars>>,
                      NEW r \in Requests, direct_upstream_stream(r),
                      pc[r] = "settling", pc'[r] = "done"
               PROVE  /\ Says(text[r], IsDone) /\ ~Says(text[r], Malformed)
                      /\ IF Says(text[r], GivesPrompt)
                         THEN request'[r].input_tokens \in
                                 {response.input : response \in {s \in Responses : ~s.estimated}}
                         ELSE request'[r].input_tokens = request[r].input_tokens
    OBVIOUS
  <2>1. complete(tracker[r])
    BY DEF HandedOverInv
  <2>2. ReadsAs(tracker[r], text[r])
    BY TextIsPieces, TrackInvReads DEF TrackersInv
  <2>3. /\ Says(text[r], IsDone) /\ ~Says(text[r], Malformed)
        /\ tracker[r].prompt = Says(text[r], GivesPrompt)
    BY <2>1, <2>2 DEF complete, ReadsAs
  <2>4. settles(r)
    BY SettlesIs
  <2>5. QED
    BY <2>3, <2>4, SettledInput
<1>2. StreamedSpec => GatewaySpec
  BY StreamedImplementsGateway DEF ImplementsGateway
<1>3. GatewaySpec => []TypeOK
  BY GatewayImplementsBilling, TypeCorrect, PTL DEF ImplementsBilling
<1>4. StreamedSpec => [](TrackersInv /\ HandedOverInv)
  <2>1. StreamedSpec => []HandlerInv
    BY <1>2, TrailsAlways, PTL
  <2>2. QED
    BY <2>1, TrackersInit, TrackersStep, HandedOverInit, HandedOverStep, PTL
    DEF StreamedSpec
<1>5. QED
  BY <1>1, <1>2, <1>3, <1>4, TrailsAlways, PTL DEF StreamedSpec, SettlesWholeStreams
=============================================================================
