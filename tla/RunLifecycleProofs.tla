--------------------------- MODULE RunLifecycleProofs ---------------------------
(* First, that what the agent accepts the verifier accepts, for outputs, quotes and limits
   of any size, unless two spans of a finding have one id. Then, for any calls, outputs,
   texts and number of faults, that an exit code of run_cli is earned, that no bundle
   verifies but one that the run finished and nothing changed since, and that a bundle
   which a run has sealed verifies. *)
EXTENDS RunLifecycle, FiniteSetTheorems, SequenceTheorems, WellFoundedInduction, TLAPS

-------------------------------------------------------------------------------
\* Citations.

\* A set of natural numbers has a least element, by way of the intervals below them.
LEMMA Least ==
    ASSUME NEW S \in SUBSET Nat, S # {}
    PROVE  \E i \in S : \A j \in S : i =< j
<1>1. PICK k : k \in S
  OBVIOUS
<1> DEFINE Below == {i \in S : i =< k}
           U == 0..k
           T == {0..i : i \in Below}
           R == StrictSubsetOrdering(U)
<1>2. IsFiniteSet(U)
  BY <1>1, FS_Interval
<1>3. IsWellFoundedOn(R, SUBSET U)
  BY <1>2, FS_StrictSubsetOrderingWellFounded, FS_FiniteSubsetsOfFinite
<1>4. T \subseteq SUBSET U /\ T # {}
  BY <1>1
<1>5. PICK x \in T : \A y \in T : <<y, x>> \notin R
  <2> HIDE DEF R, T, U
  <2> QED BY <1>3, <1>4, WFMin
<1>6. PICK i \in Below : x = 0..i
  BY <1>5
<1>7. ASSUME NEW j \in S, j < i PROVE FALSE
  <2>1. j \in Below /\ 0..j \in T
    BY <1>1, <1>6, <1>7
  <2>2. 0..j \subseteq 0..i /\ 0..j # 0..i
    <3>1. i \in 0..i /\ i \notin 0..j
      BY <1>6, <1>7
    <3> QED BY <1>6, <1>7, <3>1
  <2>3. 0..j \in SUBSET U /\ 0..i \in SUBSET U
    BY <1>1, <1>6, <2>1
  <2>4. <<0..j, 0..i>> \in R
    BY <2>2, <2>3 DEF StrictSubsetOrdering
  <2> QED BY <1>5, <1>6, <2>1, <2>4
<1> QED BY <1>6, <1>7

\* What Offsets says of its members.
LEMMA OffsetIsText ==
    ASSUME NEW Bytes, NEW text \in Seq(Bytes), NEW output \in Seq(Bytes),
           NEW i \in Offsets(text, output)
    PROVE  /\ i \in Nat /\ i + Len(text) =< Len(output)
           /\ SubSeq(output, i + 1, i + Len(text)) = text
  BY DEF Offsets

\* The first occurrence of a quote is one of its occurrences.
LEMMA SpanIsQuote ==
    ASSUME NEW Bytes, NEW C, NEW receipts, NEW quote \in [call : C, text : Seq(Bytes)],
           receipts[quote.call].output \in Seq(Bytes),
           Within(quote.text, receipts[quote.call].output)
    PROVE  SpanOf(quote, receipts).first \in
                Offsets(quote.text, receipts[quote.call].output)
<1> DEFINE output == receipts[quote.call].output
           S == Offsets(quote.text, output)
<1>1. S \in SUBSET Nat /\ S # {}
  BY DEF Offsets, Within
<1>2. \E i \in S : \A j \in S : i =< j
  <2> HIDE DEF S
  <2> QED BY <1>1, Least
<1>3. SpanOf(quote, receipts).first = CHOOSE i \in S : \A j \in S : i =< j
  BY DEF SpanOf
<1>4. SpanOf(quote, receipts).first \in S
  <2> HIDE DEF S
  <2> QED BY <1>2, <1>3
<1> QED BY <1>4

\* Element by element, what Offsets says.
LEMMA OffsetElements ==
    ASSUME NEW Bytes, NEW text \in Seq(Bytes), NEW output \in Seq(Bytes),
           NEW i \in Offsets(text, output)
    PROVE  \A k \in 1..Len(text) : text[k] = output[i + k]
<1>1. /\ i \in Nat /\ i + Len(text) =< Len(output)
      /\ SubSeq(output, i + 1, i + Len(text)) = text
  BY OffsetIsText
<1>2. Len(text) \in Nat /\ Len(output) \in Nat
  OBVIOUS
<1>3. \A k \in (i + 1)..(i + Len(text)) : output[k] \in Bytes
  BY <1>1, <1>2
<1>4. \A k \in 1..((i + Len(text)) - (i + 1) + 1) :
        SubSeq(output, i + 1, i + Len(text))[k] = output[(i + 1) + k - 1]
  BY <1>1, <1>2, <1>3, SubSeqProperties
<1> QED
  <2> SUFFICES ASSUME NEW k \in 1..Len(text) PROVE text[k] = output[i + k]
    OBVIOUS
  <2>1. k \in 1..((i + Len(text)) - (i + 1) + 1) /\ (i + 1) + k - 1 = i + k
    BY <1>1, <1>2
  <2>2. SubSeq(output, i + 1, i + Len(text))[k] = output[(i + 1) + k - 1]
    BY <1>4, <2>1
  <2> QED BY <1>1, <2>1, <2>2

\* A part of a part is a part.
LEMMA WithinIsTransitive ==
    ASSUME NEW Bytes, NEW a \in Seq(Bytes), NEW b \in Seq(Bytes), NEW c \in Seq(Bytes),
           Within(a, b), Within(b, c)
    PROVE  Within(a, c)
<1>1. PICK i \in Offsets(a, b) : TRUE
  BY DEF Within
<1>2. PICK j \in Offsets(b, c) : TRUE
  BY DEF Within
<1> DEFINE first == (i + j) + 1
           last == (i + j) + Len(a)
           x == SubSeq(c, first, last)
<1>3. i \in Nat /\ i + Len(a) =< Len(b) /\ j \in Nat /\ j + Len(b) =< Len(c)
  BY <1>1, <1>2, OffsetIsText
<1>4. Len(a) \in Nat /\ Len(b) \in Nat /\ Len(c) \in Nat
  OBVIOUS
<1>5. first \in Int /\ last \in Int /\ \A k \in first..last : c[k] \in Bytes
  BY <1>3, <1>4
<1>6. /\ x \in Seq(Bytes) /\ Len(x) = Len(a)
      /\ \A k \in 1..Len(a) : x[k] = c[(i + j) + k]
  <2>1. /\ x \in Seq(Bytes) /\ Len(x) = IF first =< last THEN last - first + 1 ELSE 0
        /\ \A k \in 1..(last - first + 1) : x[k] = c[first + k - 1]
    <3> HIDE DEF first, last
    <3> QED BY <1>5, SubSeqProperties
  <2>2. last - first + 1 = Len(a) /\ \A k \in 1..Len(a) : first + k - 1 = (i + j) + k
    BY <1>3, <1>4
  <2> HIDE DEF x
  <2> QED BY <1>3, <1>4, <2>1, <2>2
<1>7. \A k \in 1..Len(a) : x[k] = a[k]
  <2>1. \A k \in 1..Len(a) : a[k] = b[i + k]
    BY <1>1, OffsetElements
  <2>2. \A k \in 1..Len(b) : b[k] = c[j + k]
    BY <1>2, OffsetElements
  <2>3. \A k \in 1..Len(a) : i + k \in 1..Len(b) /\ j + (i + k) = (i + j) + k
    BY <1>3, <1>4
  <2> HIDE DEF x
  <2> QED BY <1>6, <2>1, <2>2, <2>3
<1>8. x = a
  <2> HIDE DEF x
  <2> QED BY <1>6, <1>7, SeqEqual
<1>9. i + j \in 0..(Len(c) - Len(a))
  BY <1>3, <1>4
<1> QED BY <1>8, <1>9 DEF Within, Offsets

-------------------------------------------------------------------------------
\* Receipts of calls with outputs over these bytes.
OutputsOver(Bytes, receipts) == \A c \in DOMAIN receipts : receipts[c].output \in Seq(Bytes)
QuotesOf(Bytes) == Seq([call : Calls, text : Seq(Bytes)])

\* No two spans have one id.
DistinctIds(spans) == \A i, j \in DOMAIN spans : spans[i].id = spans[j].id => i = j

\* What _resolve_supporting_spans of agent.py makes of the quotes of a finding is what
\* _verify_supporting_spans of verify.py expects: it lies in the output where it says, with
\* the text, the hash, the id and the count that it says, within the same limits.
THEOREM SpansVerify ==
    ASSUME NEW Bytes, NEW receipts, OutputsOver(Bytes, receipts),
           NEW quotes \in QuotesOf(Bytes), NEW cites, NEW rating,
           Resolvable(quotes, cites, receipts), DistinctIds(Resolved(quotes, receipts)),
           NEW finding, finding = [status |-> rating, cites |-> cites,
                                   spans |-> Resolved(quotes, receipts)]
    PROVE  SpansVerified(finding, receipts)
<1> DEFINE spans == Resolved(quotes, receipts)
<1>1. spans = [i \in DOMAIN quotes |-> SpanOf(quotes[i], receipts)] /\ finding.spans = spans
      /\ finding.cites = cites
  BY DEF Resolved
<1>2. DOMAIN quotes = 1..Len(quotes) /\ Len(quotes) \in Nat
  BY DEF QuotesOf
<1>3. Len(spans) = Len(quotes) /\ DOMAIN spans = DOMAIN quotes
  <2>1. DOMAIN spans = 1..Len(quotes)
    BY <1>1, <1>2
  <2> HIDE DEF spans
  <2> QED BY <1>2, <2>1
<1>4. ASSUME NEW i \in DOMAIN quotes
      PROVE  /\ spans[i].call \in cites \cap DOMAIN receipts
             /\ spans[i].first < spans[i].last
             /\ spans[i].last - spans[i].first = Len(spans[i].text)
             /\ spans[i].artifact = receipts[spans[i].call].output
             /\ spans[i].id = SpanId(spans[i].artifact, spans[i].first, spans[i].last)
             /\ SubSeq(receipts[spans[i].call].output, spans[i].first + 1, spans[i].last) =
                    spans[i].text
             /\ spans[i].count = Occurrences(spans[i].text, receipts[spans[i].call].output)
  <2> DEFINE q == quotes[i]
             output == receipts[q.call].output
             first == SpanOf(q, receipts).first
             last == SpanOf(q, receipts).last
  <2>1. q \in [call : Calls, text : Seq(Bytes)]
    BY <1>2, ElementOfSeq DEF QuotesOf
  <2>2. q.call \in cites \cap DOMAIN receipts /\ q.text # <<>> /\ Within(q.text, output)
    BY <1>4 DEF Resolvable
  <2>3. output \in Seq(Bytes)
    BY <2>2 DEF OutputsOver
  <2>4. first \in Offsets(q.text, output)
    BY <2>1, <2>2, <2>3, SpanIsQuote
  <2>5. last = first + Len(q.text)
    BY DEF SpanOf
  <2>6. first \in Nat /\ SubSeq(output, first + 1, last) = q.text
    BY <2>1, <2>3, <2>4, <2>5, OffsetIsText
  <2>7. Len(q.text) \in Nat \ {0}
    BY <2>1, <2>2, EmptySeq
  <2>8. first < last /\ last - first = Len(q.text)
    <3> HIDE DEF first, last, q
    <3> QED BY <2>5, <2>6, <2>7
  <2>9. spans[i] = SpanOf(q, receipts)
    BY <1>1, <1>4
  <2>10. /\ SpanOf(q, receipts).call = q.call /\ SpanOf(q, receipts).artifact = output
         /\ SpanOf(q, receipts).text = q.text
         /\ SpanOf(q, receipts).id = SpanId(output, first, last)
         /\ SpanOf(q, receipts).count = Occurrences(q.text, output)
    BY DEF SpanOf
  <2> HIDE DEF spans, q
  <2> QED BY <2>2, <2>6, <2>8, <2>9, <2>10
<1>5. ASSUME NEW c \in cites PROVE Cardinality(OfCall(spans, c)) \in 1..MaxQuotesPerCall
  <2>1. \A i \in DOMAIN quotes : spans[i].call = quotes[i].call
    <3> HIDE DEF spans
    <3> TAKE i \in DOMAIN quotes
    <3>1. spans[i] = SpanOf(quotes[i], receipts)
      BY <1>1
    <3>2. SpanOf(quotes[i], receipts).call = quotes[i].call
      BY DEF SpanOf
    <3> QED BY <3>1, <3>2
  <2>2. OfCall(spans, c) = OfCall(quotes, c)
    <3> HIDE DEF spans
    <3> QED BY <1>3, <2>1 DEF OfCall
  <2> QED BY <2>2 DEF Resolvable
<1>6. Len(spans) =< MaxQuotes
  BY <1>3 DEF Resolvable
<1>7. \A i, j \in DOMAIN spans : spans[i].id = spans[j].id => i = j
  BY DEF DistinctIds
<1> HIDE DEF spans
<1> QED BY <1>1, <1>3, <1>4, <1>5, <1>6, <1>7 DEF SpansVerified

\* The verifier finds every quote of an accepted verdict, in the span and in the output.
THEOREM QuotesVerify ==
    ASSUME NEW Bytes, NEW receipts, OutputsOver(Bytes, receipts),
           NEW quotes \in QuotesOf(Bytes), NEW cites, NEW rating,
           Resolvable(quotes, cites, receipts), DistinctIds(Resolved(quotes, receipts)),
           NEW finding, finding = [status |-> rating, cites |-> cites,
                                   spans |-> Resolved(quotes, receipts)],
           NEW verdict, \A i \in DOMAIN verdict.quotes : verdict.quotes[i].text \in Seq(Bytes),
           VerdictAccepted(verdict.status, verdict.cites, verdict.quotes, finding, receipts)
    PROVE  QuotesVerified(verdict, finding, receipts)
<1> DEFINE spans == Resolved(quotes, receipts)
<1>1. finding.spans = spans /\ finding.cites = cites
  OBVIOUS
<1>2. /\ IsInjective(verdict.quotes) /\ verdict.cites \subseteq cites \cap DOMAIN receipts
      /\ \A c \in verdict.cites : OfCall(verdict.quotes, c) # {}
      /\ \A i \in DOMAIN verdict.quotes :
            QuoteResolves(verdict.quotes[i], verdict.cites, finding)
  BY <1>1 DEF VerdictAccepted
<1>3. ASSUME NEW i \in DOMAIN verdict.quotes
      PROVE  LET q == verdict.quotes[i]
             IN  /\ q.text # <<>> /\ q.call \in verdict.cites \cap DOMAIN receipts
                 /\ \E j \in DOMAIN spans : /\ spans[j].id = q.id /\ spans[j].call = q.call
                                           /\ Within(q.text, spans[j].text)
                 /\ Within(q.text, receipts[q.call].output)
  <2> DEFINE q == verdict.quotes[i]
             s == SpanById(spans, q.id)
  <2>1. /\ q.call \in verdict.cites /\ \E j \in DOMAIN spans : spans[j].id = q.id
        /\ s.call = q.call /\ q.text # <<>> /\ Within(q.text, s.text)
    BY <1>1, <1>2, <1>3 DEF QuoteResolves, Quoted
  <2>2. PICK j \in DOMAIN spans : spans[j].id = q.id
    BY <2>1
  <2>3. s = spans[j]
    <3>1. {k \in DOMAIN spans : spans[k].id = q.id} = {j}
      BY <2>2 DEF DistinctIds
    <3>2. s = spans[CHOOSE k \in {j} : \A l \in {j} : k >= l]
      BY <3>1 DEF SpanById
    <3>3. DOMAIN spans = 1..Len(quotes) /\ Len(quotes) \in Nat
      BY DEF Resolved, QuotesOf
    <3>4. j \in Nat
      BY <2>2, <3>3
    <3>5. \E k \in {j} : \A l \in {j} : k >= l
      BY <3>4
    <3>6. (CHOOSE k \in {j} : \A l \in {j} : k >= l) = j
      BY <3>5
    <3> QED BY <3>2, <3>6
  <2>4. j \in DOMAIN quotes /\ spans[j] = SpanOf(quotes[j], receipts)
    BY <2>2 DEF Resolved
  <2>5. spans[j].text = quotes[j].text /\ spans[j].call = quotes[j].call
    BY <2>4 DEF SpanOf
  <2>6. Within(quotes[j].text, receipts[quotes[j].call].output)
        /\ quotes[j].call \in DOMAIN receipts
    BY <2>4 DEF Resolvable
  <2>7. quotes[j].text \in Seq(Bytes)
    <3>1. j \in 1..Len(quotes)
      BY <2>4 DEF QuotesOf
    <3>2. quotes[j] \in [call : Calls, text : Seq(Bytes)]
      BY <3>1, ElementOfSeq DEF QuotesOf
    <3> QED BY <3>2
  <2>8. receipts[quotes[j].call].output \in Seq(Bytes)
    BY <2>6 DEF OutputsOver
  <2>9. Within(q.text, quotes[j].text) /\ quotes[j].call = q.call
    BY <2>1, <2>3, <2>5
  <2>10. Within(q.text, receipts[q.call].output)
    <3>1. q.text \in Seq(Bytes)
      BY <1>3
    <3> HIDE DEF q
    <3> QED BY <3>1, <2>6, <2>7, <2>8, <2>9, WithinIsTransitive
  <2> HIDE DEF spans, s
  <2> QED BY <1>2, <2>1, <2>2, <2>3, <2>10
<1> HIDE DEF spans
<1> QED BY <1>1, <1>2, <1>3 DEF QuotesVerified

\* The verifier accepts a finding that the agent has accepted over the same receipts, when
\* no two of its spans have one id.
LEMMA FindingVerifies ==
    ASSUME NEW Bytes, NEW receipts, OutputsOver(Bytes, receipts),
           NEW quotes \in QuotesOf(Bytes), NEW cites, NEW rating,
           FindingAccepted(rating, cites, quotes, receipts),
           DistinctIds(Resolved(quotes, receipts)),
           NEW finding, finding = [status |-> rating, cites |-> cites,
                                   spans |-> Resolved(quotes, receipts)]
    PROVE  CitationsVerified([findings |-> {finding}, verdicts |-> {}], receipts)
<1>1. Resolvable(quotes, cites, receipts)
  BY DEF FindingAccepted
<1>2. SpansVerified(finding, receipts)
  BY <1>1, SpansVerify
<1>3. /\ finding.cites = cites /\ finding.status = rating
      /\ cites # {} /\ cites \subseteq DOMAIN receipts
      /\ rating = "CONFIRMED" => Succeeding(cites, receipts)
  BY DEF FindingAccepted
<1> QED BY <1>2, <1>3 DEF CitationsVerified

\* And every verdict that the agent has accepted for it: the part of SealedVerifies that is
\* about citations, for outputs and quotes of any length and any limits.
THEOREM AcceptedVerifies ==
    ASSUME NEW Bytes, NEW receipts, OutputsOver(Bytes, receipts),
           NEW quotes \in QuotesOf(Bytes), NEW cites, NEW rating,
           FindingAccepted(rating, cites, quotes, receipts),
           DistinctIds(Resolved(quotes, receipts)),
           NEW finding, finding = [status |-> rating, cites |-> cites,
                                   spans |-> Resolved(quotes, receipts)],
           NEW verdict, \A i \in DOMAIN verdict.quotes : verdict.quotes[i].text \in Seq(Bytes),
           VerdictAccepted(verdict.status, verdict.cites, verdict.quotes, finding, receipts),
           verdict.status = "CONFIRMED" => rating = "CONFIRMED"
    PROVE  CitationsVerified([findings |-> {finding}, verdicts |-> {verdict}], receipts)
<1>1. Resolvable(quotes, cites, receipts)
  BY DEF FindingAccepted
<1>2. QuotesVerified(verdict, finding, receipts)
  BY <1>1, QuotesVerify
<1>3. CitationsVerified([findings |-> {finding}, verdicts |-> {}], receipts)
  BY FindingVerifies
<1>4. finding.cites = cites /\ finding.status = rating
  OBVIOUS
<1>5. /\ verdict.cites # {} /\ verdict.cites \subseteq finding.cites
      /\ verdict.status = "CONFIRMED" => Succeeding(verdict.cites, receipts)
  BY DEF VerdictAccepted
<1> QED BY <1>2, <1>3, <1>4, <1>5 DEF CitationsVerified

-------------------------------------------------------------------------------
\* The inductive invariant of a run: each conjunct of IInv is explained below. The place in
\* run_cli (pc) fixes what is written so far (InOrder, OnDisk, Whole), which outputs the
\* directory holds (OutputsFit) and what the status and the exit code rest on (Rested).

Events == {"run.created", "caps.configured", "custody.initial.started",
           "custody.initial.completed", "profile.completed", "investigation.started",
           "tool.started", "tool.completed", "investigator.finished", "judge.completed",
           "cap.fired", "investigation.completed", "run.preflight_failed", "run.failed",
           "run.interrupted", "custody.mismatch", "mount.release_failed",
           "custody.final.started", "custody.final.completed", "artifact.written",
           "run.completed", "bundle.finalization_failed"}
HandlerEvents == {"cap.fired", "custody.mismatch", "run.preflight_failed",
                  "run.interrupted", "run.failed"}
Names == {"report.md", "profile.json", "environment.json", "summary.json", "viewer.html"}
Manifest == "manifest.json"
Detached == "manifest.sha256"

\* A sequence of records with known events.
IsLog(s) ==
    /\ s \in Seq(Range(s))
    /\ \A i \in DOMAIN s : s[i].event \in Events /\ s[i] = Entry(s[i].event, s[i].payload)

Early == Body \cup {"created", "handle", "close", "unmounted", "final", "rehash", "mismatched"}
Late == {"final", "rehash", "mismatched", "manifest", "checksum", "verify"} \cup Sealing

Shaped ==
    /\ pc \in Places \cup {"damaged"} /\ torn \in BOOLEAN
    /\ session \in {"none", "open", "closed"} /\ required \in BOOLEAN /\ released \in BOOLEAN
    /\ status \in {"COMPLETE", "FATAL", "INVALID", "PARTIAL"}
    /\ faults \in Nat /\ faults =< MaxFaults /\ evidence \in Nat /\ evidence =< faults
    /\ baseline \in Nat /\ baseline =< evidence
    /\ profile \in {{}, {[hashes |-> baseline]}}
    /\ \A r, s \in run : r = s
    /\ exit \in -2..3 /\ (exit = Running => pc \notin {"end", "damaged"})
    /\ temporaries \subseteq Names \cup {Manifest, Detached}
    /\ pc # "damaged" => IsLog(log)

\* What has been written is a beginning of what is to be written.
InOrder ==
    /\ Len(written) \in 0..Len(ToWrite)
    /\ written = SubSeq(ToWrite, 1, Len(written))

\* What is in the directory, by the place in run_cli.
OnDisk ==
    /\ pc \in Early => written = <<>> /\ DOMAIN files = {} /\ temporaries = {}
    /\ pc \in Sealing \cup {"manifest"} => DOMAIN files = Range(written)
    /\ pc = "seal" => temporaries = {} \/ (Len(written) < Len(ToWrite) /\
                                            temporaries = {ToWrite[Len(written) + 1]})
    /\ pc \in {"receipts", "complete", "sealed"} => temporaries = {}
    /\ pc = "manifest" => temporaries \subseteq {Manifest}
    /\ pc = "checksum" => temporaries \subseteq {Detached}
    /\ pc \in {"manifest", "checksum", "verify"} => ~torn
    /\ pc # "damaged" => \A n \in DOMAIN files : files[n] # Damaged

\* The manifest lists the bundle as it is.
Lists == files[Manifest] = BuildManifest(files, outputs, log, status, Range(written), Listed)

\* Everything is there and as it is listed.
AllThere ==
    /\ temporaries = {} /\ ~torn
    /\ DOMAIN files = Range(written) \cup {Manifest, Detached} /\ Lists
    /\ files[Detached] = Checksum(files[Manifest])

\* Until something is damaged, the checksum is there only when all of the bundle is.
Whole ==
    /\ pc = "checksum" => DOMAIN files = Range(written) \cup {Manifest} /\ Lists
    /\ pc = "verify" => Detached \in DOMAIN files
    /\ Detached \in DOMAIN files /\ pc # "damaged" =>
        pc \in {"verify", "escape", "end"} /\ AllThere
    /\ pc = "damaged" => ~Verified(files, outputs, log, FALSE)

\* An output is retained under its own content, and for a receipt.
ToolsOf(l) == <<Payloads(l, "tool.started"), Payloads(l, "tool.completed")>>
OutputsFit ==
    /\ pc \in Body \cup {"created"} => DOMAIN outputs = {} /\ ToolsOf(log) = <<{}, {}>>
    /\ pc # "damaged" =>
        /\ \A o \in DOMAIN outputs : outputs[o] = o /\ o # <<>>
        /\ CallsOf(log, "tool.started") = CallsOf(log, "tool.completed") =>
            DOMAIN outputs = OutputsOf(log)

\* What a status rests on.
FinalOf(l) == Payloads(l, "custody.final.completed")
Rested ==
    /\ pc = "mismatched" => status = "FATAL"
    /\ pc \in {"baseline", "profiled", "route", "registry", "agent"} => required
    /\ status = "COMPLETE" => required
    /\ pc \in Late \cup {"unmounted"} => session # "open"
    /\ pc \in Late /\ status # "FATAL" => released
    /\ pc \in Early => FinalOf(log) = {}
    /\ pc \in Sealing \cup {"manifest", "checksum", "verify"} /\ required /\ status # "FATAL" =>
        FinalOf(log) = {[hashes |-> baseline, released |-> TRUE]}
    /\ pc = "handle" => failure \in HandlerEvents
    /\ pc = "finalize" => failure # "ValueError"
    /\ pc = "escape" /\ failure = "ValueError" => DOMAIN files = {}
    /\ ExitIsEarned

IInv == Shaped /\ InOrder /\ OnDisk /\ Whole /\ OutputsFit /\ Rested

-------------------------------------------------------------------------------
\* Files.

LEMMA Four ==
    ASSUME NEW S, NEW a \in S, NEW b \in S, NEW c \in S, NEW d \in S
    PROVE  <<a, b, c, d>> \in Seq(S) /\ Len(<<a, b, c, d>>) = 4
  OBVIOUS

LEMMA Five ==
    ASSUME NEW S, NEW a \in S, NEW b \in S, NEW c \in S, NEW d \in S, NEW e \in S
    PROVE  <<a, b, c, d, e>> \in Seq(S) /\ Len(<<a, b, c, d, e>>) = 5
  OBVIOUS

\* What is to be written has the files of the root, each once.
LEMMA WritesRoot ==
    /\ ToWrite \in Seq(Names) /\ Len(ToWrite) \in {4, 5}
    /\ Range(RootArtifacts) = Names /\ Manifest \notin Names /\ Detached \notin Names
<1>1. Range(RootArtifacts) = Names
  BY DEF RootArtifacts, Names, Range
<1>2. ToWrite \in Seq(Names) /\ Len(ToWrite) \in {4, 5}
  <2>1. /\ "report.md" \in Names /\ "profile.json" \in Names /\ "environment.json" \in Names
        /\ "summary.json" \in Names /\ "viewer.html" \in Names
    BY DEF Names
  <2>2. CASE profile # {}
    BY <2>1, <2>2, Five DEF ToWrite, RootArtifacts
  <2>3. CASE profile = {}
    BY <2>1, <2>3, Four DEF ToWrite
  <2> QED BY <2>2, <2>3
<1> QED BY <1>1, <1>2 DEF Names, Manifest, Detached

-------------------------------------------------------------------------------
\* Logs.

LEMMA Joined ==
    ASSUME NEW s, NEW t, IsLog(s), IsLog(t)
    PROVE  /\ IsLog(s \o t) /\ Len(s \o t) = Len(s) + Len(t)
           /\ \A e : Payloads(s \o t, e) = Payloads(s, e) \cup Payloads(t, e)
<1> DEFINE R == Range(s) \cup Range(t)
<1>1. s \in Seq(R) /\ t \in Seq(R)
  BY SeqMonotonic DEF IsLog
<1> DEFINE u == s \o t
<1>2. /\ u \in Seq(R) /\ Len(u) = Len(s) + Len(t) /\ Len(s) \in Nat /\ Len(t) \in Nat
      /\ DOMAIN s = 1..Len(s) /\ DOMAIN t = 1..Len(t) /\ DOMAIN u = 1..(Len(s) + Len(t))
  BY <1>1, ConcatProperties, LenProperties
<1>3. \A i \in 1..(Len(s) + Len(t)) : u[i] = IF i =< Len(s) THEN s[i] ELSE t[i - Len(s)]
  BY <1>1, ConcatProperties
<1> HIDE DEF u
<1>4. \A i \in DOMAIN s : i \in DOMAIN u /\ u[i] = s[i]
  BY <1>2, <1>3
<1>5. \A j \in DOMAIN t : Len(s) + j \in DOMAIN u /\ u[Len(s) + j] = t[j]
  BY <1>2, <1>3
<1>6. \A i \in DOMAIN u : (i \in DOMAIN s /\ u[i] = s[i])
                          \/ \E j \in DOMAIN t : i = Len(s) + j /\ u[i] = t[j]
  <2> TAKE i \in DOMAIN u
  <2>1. CASE i =< Len(s)
    BY <2>1, <1>2, <1>3
  <2>2. CASE i > Len(s)
    <3>1. i - Len(s) \in DOMAIN t /\ u[i] = t[i - Len(s)] /\ i = Len(s) + (i - Len(s))
      BY <2>2, <1>2, <1>3
    <3> QED BY <3>1
  <2> QED BY <2>1, <2>2, <1>2
<1>7. u \in Seq(Range(u))
  BY <1>2, SeqOfRange
<1>8. \A i \in DOMAIN u : u[i].event \in Events /\ u[i] = Entry(u[i].event, u[i].payload)
  BY <1>6 DEF IsLog
<1>9. \A e : Payloads(u, e) = Payloads(s, e) \cup Payloads(t, e)
  BY <1>4, <1>5, <1>6 DEF Payloads, Indices
<1> QED BY <1>2, <1>7, <1>8, <1>9 DEF IsLog, u

LEMMA NoEntry == IsLog(<<>>) /\ \A e : Payloads(<<>>, e) = {}
  BY EmptySeq DEF IsLog, Payloads, Indices

LEMMA IsEntry ==
    ASSUME NEW e, NEW p
    PROVE  Entry(e, p).event = e /\ Entry(e, p).payload = p
  BY DEF Entry

LEMMA OneEntry ==
    ASSUME NEW e \in Events, NEW p
    PROVE  /\ IsLog(<<Entry(e, p)>>)
           /\ \A d : Payloads(<<Entry(e, p)>>, d) = IF d = e THEN {p} ELSE {}
<1> DEFINE s == <<Entry(e, p)>>
<1>1. DOMAIN s = {1} /\ s[1] = Entry(e, p) /\ s \in Seq({Entry(e, p)})
  OBVIOUS
<1> HIDE DEF s
<1>2. Range(s) = {Entry(e, p)}
  BY <1>1 DEF Range
<1>3. s[1].event = e /\ s[1].payload = p
  BY <1>1, IsEntry
<1>4. IsLog(s)
  BY <1>1, <1>2, <1>3 DEF IsLog
<1>5. \A d : Payloads(s, d) = IF d = e THEN {p} ELSE {}
  BY <1>1, <1>3 DEF Payloads, Indices
<1> QED BY <1>4, <1>5 DEF s

\* A record after the others.
LEMMA Appended ==
    ASSUME NEW s, IsLog(s), NEW e \in Events, NEW p
    PROVE  /\ IsLog(Append(s, Entry(e, p)))
           /\ \A d : Payloads(Append(s, Entry(e, p)), d) =
                        Payloads(s, d) \cup IF d = e THEN {p} ELSE {}
<1>1. Append(s, Entry(e, p)) = s \o <<Entry(e, p)>>
  <2>1. s \in Seq(Range(s) \cup {Entry(e, p)})
    BY SeqMonotonic DEF IsLog
  <2> QED BY <2>1, AppendIsConcat
<1>2. /\ IsLog(<<Entry(e, p)>>)
      /\ \A d : Payloads(<<Entry(e, p)>>, d) = IF d = e THEN {p} ELSE {}
  BY OneEntry
<1>3. /\ IsLog(s \o <<Entry(e, p)>>)
      /\ \A d : Payloads(s \o <<Entry(e, p)>>, d) =
                    Payloads(s, d) \cup Payloads(<<Entry(e, p)>>, d)
  BY <1>2, Joined
<1> QED BY <1>1, <1>2, <1>3

-------------------------------------------------------------------------------
\* Steps that write no file.

\* Nothing is in the directory before the sealing.
LEMMA EarlyDisk ==
    ASSUME IInv, pc \in Early, pc' \in Early \cup {"seal", "escape"},
           UNCHANGED <<files, temporaries, written>>
    PROVE  InOrder' /\ OnDisk' /\ Whole'
<1>1. written' = <<>> /\ DOMAIN files' = {} /\ temporaries' = {}
  BY DEF IInv, OnDisk
<1>2. Len(written') = 0 /\ Range(written') = {}
  BY <1>1, EmptySeq DEF Range
<1>3. InOrder'
  <2>1. Len(ToWrite') \in {4, 5}
    <3>1. CASE profile' # {}
      BY <3>1, Five DEF ToWrite, RootArtifacts
    <3>2. CASE profile' = {}
      BY <3>2, Four DEF ToWrite
    <3> QED BY <3>1, <3>2
  <2>2. SubSeq(ToWrite', 1, 0) = <<>>
    BY SubSeqEmpty
  <2> QED BY <1>1, <1>2, <2>1, <2>2 DEF InOrder
<1>4. pc' \notin {"receipts", "complete", "sealed", "manifest", "checksum", "verify", "damaged"}
  BY DEF Early, Body
<1>5. OnDisk'
  BY <1>1, <1>2, <1>4 DEF OnDisk, Sealing
<1>6. Whole'
  BY <1>1, <1>4 DEF Whole
<1> QED BY <1>3, <1>5, <1>6

\* The other parts of the invariant when only the place, the case or the status change.
LEMMA OutputsKept ==
    ASSUME IInv, UNCHANGED <<outputs, log>>, pc' # "damaged", pc # "damaged",
           pc' \in Body \cup {"created"} => pc \in Body \cup {"created"}
    PROVE  OutputsFit'
  BY DEF IInv, OutputsFit

LEMMA Throws ==
    ASSUME NEW exception
    PROVE  /\ Handler(exception)[1] \in {"PARTIAL", "FATAL", "INVALID"}
           /\ Handler(exception)[2] \in HandlerEvents
  BY DEF Handler, HandlerEvents

LEMMA PlainSteps ==
    ASSUME IInv, OpenSession \/ Profile \/ Require \/ Route \/ LoadTools
    PROVE  IInv'
<1>1. exit = Running /\ pc \in Body /\ pc' \in Body /\ exit' = Running
      /\ UNCHANGED <<log, files, outputs, torn, temporaries, written, status, failure, run>>
  BY DEF OpenSession, Profile, Require, Route, LoadTools, At, Goto, Body, bundle, case, result
<1>2. InOrder' /\ OnDisk' /\ Whole'
  BY <1>1, EarlyDisk DEF Early
<1>3. OutputsFit'
  BY <1>1, OutputsKept DEF Body
<1>4. Shaped'
  <2>1. CASE Profile
    BY <1>1, <2>1 DEF IInv, Shaped, Profile, At, Goto, Body,
       bundle, case, result, Places, IsLog
  <2>2. CASE OpenSession
    BY <1>1, <2>2 DEF IInv, Shaped, OpenSession, At, Goto, Body, bundle, result, Places, IsLog
  <2>3. CASE Require
    BY <1>1, <2>3 DEF IInv, Shaped, Require, At, Goto, Body, bundle, result, Places, IsLog
  <2>4. CASE Route \/ LoadTools
    BY <1>1, <2>4 DEF IInv, Shaped, Route, LoadTools, At, Goto, Body,
       bundle, case, result, Places, IsLog
  <2> QED BY <2>1, <2>2, <2>3, <2>4
<1>5. Rested'
  BY <1>1 DEF IInv, Shaped, Rested, OpenSession, Profile, Require, Route, LoadTools, At, Goto,
      Body, bundle, case, result, Places, Early, Late, Sealing, ExitIsEarned
<1> QED BY <1>2, <1>3, <1>4, <1>5 DEF IInv

-------------------------------------------------------------------------------
\* Exceptions.

Exceptions == {"CapExceeded", "CustodyError", "EvidenceDiscoveryError", "EvidenceError",
               "OSError", "AuditError", "KeyboardInterrupt", "ValueError"}

\* What an exception does to the case and the result, wherever it is raised.
LEMMA ThrowKeeps ==
    ASSUME IInv, exit = Running, pc # "escape", NEW exception \in Exceptions, Throw(exception),
           UNCHANGED <<case, run, written, exit>>, torn' \in BOOLEAN,
           temporaries' \subseteq Names \cup {Manifest, Detached},
           faults' = faults \/ Fault, IsLog(log'), FinalOf(log') = FinalOf(log),
           exception = "ValueError" =>
              pc \in Body \cup {"handle", "mismatched"} /\ UNCHANGED files
    PROVE  Shaped' /\ InOrder' /\ Rested'
<1>1. faults' \in Nat /\ faults' =< MaxFaults /\ faults =< faults'
  BY LifecycleAssumption DEF IInv, Shaped, Fault
<1>2. CASE pc \in Body
  <2>1. pc' = "handle" /\ failure' \in HandlerEvents
        /\ status' \in {"PARTIAL", "FATAL", "INVALID"}
    BY <1>2, Throws DEF Throw
  <2>2. Shaped'
    BY <1>1, <1>2, <2>1 DEF IInv, Shaped, case, Places
  <2>3. Rested'
    BY <1>2, <2>1 DEF IInv, Shaped, Rested, case, Early, Late, Sealing, Body, ExitIsEarned
  <2> QED BY <2>2, <2>3 DEF IInv, InOrder, ToWrite, case
<1>3. CASE pc \notin Body
  <2>1. pc' \in {"finalize", "escape"} /\ failure' = exception /\ status' = status
        /\ (pc' = "finalize" => pc \in Sealing)
    BY <1>3 DEF Throw
  <2>2. Shaped'
    BY <1>1, <2>1 DEF IInv, Shaped, case, Places
  <2>3. exception = "ValueError" => DOMAIN files' = {} /\ pc' = "escape"
    BY <1>3, <2>1 DEF IInv, OnDisk, Early, Body, Sealing
  <2>4. Rested'
    BY <2>1, <2>3 DEF IInv, Shaped, Rested, case, Early, Late, Sealing, Body, ExitIsEarned
  <2> QED BY <2>2, <2>4 DEF IInv, InOrder, ToWrite, case
<1> QED BY <1>2, <1>3

\* An exception that leaves the directory as it is.
LEMMA ThrowOnDisk ==
    ASSUME IInv, exit = Running, pc # "escape", NEW exception, Throw(exception),
           UNCHANGED <<log, outputs, files, temporaries, written>>,
           torn' = torn \/ pc # "verify"
    PROVE  OnDisk' /\ Whole' /\ OutputsFit'
<1>1. CASE pc \in Body
  <2>1. pc' = "handle"
    BY <1>1 DEF Throw
  <2>2. OnDisk' /\ Whole'
    BY <1>1, <2>1, EarlyDisk DEF Early
  <2> QED BY <1>1, <2>1, <2>2, OutputsKept DEF Body
<1>2. CASE pc \notin Body
  <2>1. pc' \in {"finalize", "escape"} /\ status' = status /\ pc # "damaged"
        /\ (pc' = "finalize" => pc \in Sealing)
    BY <1>2 DEF Throw, IInv, Shaped
  <2>2. OnDisk'
    BY <2>1 DEF IInv, OnDisk, Early, Body, Sealing
  <2>3. Detached \in DOMAIN files => pc = "verify"
    BY <2>1 DEF IInv, Whole, Shaped
  <2>4. Whole'
    <3>1. Detached \in DOMAIN files => pc = "verify" /\ pc' = "escape" /\ AllThere
      BY <2>1, <2>3 DEF Sealing, IInv, Whole
    <3>2. ASSUME Detached \in DOMAIN files PROVE AllThere'
      <4>1. torn' = torn
        BY <3>1, <3>2
      <4>2. Lists' <=> Lists
        BY <2>1 DEF Lists, Listed
      <4> QED BY <3>1, <3>2, <4>1, <4>2 DEF AllThere
    <3> QED BY <2>1, <3>1, <3>2 DEF IInv, Whole
  <2>5. OutputsFit'
    BY <2>1, OutputsKept DEF Body
  <2> QED BY <2>2, <2>4, <2>5
<1> QED BY <1>1, <1>2

LEMMA RaisedAt ==
    ASSUME NEW exception \in Raised(pc)
    PROVE  /\ pc \in {"caps", "registry", "session", "profile", "route"}
           /\ exception \in Exceptions
  BY DEF Raised, Exceptions

LEMMA ThrowSteps ==
    ASSUME IInv, exit = Running,
           Raise \/ Interrupt \/ (pc \in {"handle", "mismatched"} /\ Unencodable)
           \/ (pc \notin {"escape", "verify"} /\ AppendFails)
    PROVE  IInv'
<1>1. PICK exception \in Exceptions :
        /\ Throw(exception)
        /\ exception = "ValueError" => pc \in Body \cup {"handle", "mismatched"}
  BY RaisedAt DEF Raise, Interrupt, Unencodable, AppendFails, Exceptions, Body
<1>2. pc # "escape" /\ (torn' = torn \/ pc # "verify")
  BY RaisedAt DEF Raise, Interrupt, Unencodable, AppendFails, bundle
<1>3. UNCHANGED <<log, outputs, files, temporaries, written, case, run, exit>>
  BY DEF Raise, Interrupt, Unencodable, AppendFails, bundle
<1>4. torn' \in BOOLEAN /\ (faults' = faults \/ Fault)
  BY DEF Raise, Interrupt, Unencodable, AppendFails, bundle, IInv, Shaped
<1>5. OnDisk' /\ Whole' /\ OutputsFit'
  BY <1>1, <1>2, <1>3, ThrowOnDisk
<1>6. IsLog(log') /\ FinalOf(log') = FinalOf(log)
      /\ temporaries' \subseteq Names \cup {Manifest, Detached}
  BY <1>3 DEF IInv, Shaped
<1>7. Shaped' /\ InOrder' /\ Rested'
  BY <1>1, <1>2, <1>3, <1>4, <1>6, ThrowKeeps
<1> QED BY <1>5, <1>7 DEF IInv

-------------------------------------------------------------------------------
\* Records.

\* The records of tools are the agent's.
Plain == Events \ {"tool.started", "tool.completed"}

LEMMA ToolsKept ==
    ASSUME NEW l, NEW m, ToolsOf(l) = ToolsOf(m)
    PROVE  /\ CallsOf(l, "tool.started") = CallsOf(m, "tool.started")
           /\ CallsOf(l, "tool.completed") = CallsOf(m, "tool.completed")
           /\ OutputsOf(l) = OutputsOf(m)
<1>1. /\ Payloads(l, "tool.started") = Payloads(m, "tool.started")
      /\ Payloads(l, "tool.completed") = Payloads(m, "tool.completed")
  BY DEF ToolsOf
<1> QED BY <1>1 DEF CallsOf, OutputsOf

LEMMA PlainRecord ==
    ASSUME IsLog(log), NEW e \in Plain, NEW p, log' = Append(log, Entry(e, p))
    PROVE  /\ IsLog(log') /\ ToolsOf(log') = ToolsOf(log)
           /\ FinalOf(log') = IF e = "custody.final.completed" THEN FinalOf(log) \cup {p}
                                                               ELSE FinalOf(log)
<1>1. /\ IsLog(log')
      /\ \A d : Payloads(log', d) = Payloads(log, d) \cup IF d = e THEN {p} ELSE {}
  BY Appended DEF Plain
<1>2. e # "tool.started" /\ e # "tool.completed"
  BY DEF Plain
<1>3. /\ Payloads(log', "tool.started") = Payloads(log, "tool.started")
      /\ Payloads(log', "tool.completed") = Payloads(log, "tool.completed")
  BY <1>1, <1>2
<1>4. CASE e = "custody.final.completed"
  <2>1. Payloads(log', "custody.final.completed") =
            Payloads(log, "custody.final.completed") \cup {p}
    BY <1>1, <1>4
  <2> QED BY <1>1, <1>3, <1>4, <2>1 DEF ToolsOf, FinalOf
<1>5. CASE e # "custody.final.completed"
  <2>1. Payloads(log', "custody.final.completed") = Payloads(log, "custody.final.completed")
    BY <1>1, <1>5
  <2> QED BY <1>1, <1>3, <1>5, <2>1 DEF ToolsOf, FinalOf
<1> QED BY <1>4, <1>5

\* A record before the sealing.
LEMMA EarlyRecord ==
    ASSUME IInv, exit = Running, pc \in Early, pc' \in Early \cup {"seal"},
           pc' \in Body \cup {"created"} => pc \in Body \cup {"created"},
           NEW e \in Plain, NEW p, log' = Append(log, Entry(e, p)),
           UNCHANGED <<files, outputs, torn, temporaries, case, run, written, exit, faults>>,
           status' \in {status, "FATAL"}
    PROVE  /\ Shaped' /\ InOrder' /\ OnDisk' /\ Whole' /\ OutputsFit'
           /\ FinalOf(log') = IF e = "custody.final.completed" THEN {p} ELSE {}
<1>1. pc # "damaged" /\ pc' # "damaged" /\ pc' # "end" /\ pc' \in Places
  BY DEF Early, Body, Places, Sealing
<1>2. IsLog(log)
  BY <1>1 DEF IInv, Shaped
<1>3. IsLog(log') /\ ToolsOf(log') = ToolsOf(log)
  BY <1>2, PlainRecord
<1>4. Shaped'
  BY <1>1, <1>3 DEF IInv, Shaped, case
<1>5. InOrder' /\ OnDisk' /\ Whole'
  BY EarlyDisk
<1>6. OutputsFit'
  BY <1>1, <1>3, ToolsKept DEF IInv, OutputsFit
<1>7. FinalOf(log) = {}
  BY DEF IInv, Rested
<1>8. FinalOf(log') = IF e = "custody.final.completed" THEN {p} ELSE {}
  <2>1. CASE e = "custody.final.completed"
    BY <1>2, <1>7, <2>1, PlainRecord
  <2>2. CASE e # "custody.final.completed"
    BY <1>2, <1>7, <2>2, PlainRecord
  <2> QED BY <2>1, <2>2
<1> QED BY <1>4, <1>5, <1>6, <1>8

\* The records of the try statement.
LEMMA BodyRecords ==
    ASSUME IInv, Create \/ Configure \/ StartCustody \/ RecordBaseline \/ RecordProfile
    PROVE  IInv'
<1>1. PICK e, p, next :
        /\ e \in Plain \ {"custody.final.completed"}
        /\ exit = Running /\ pc \in Body \cup {"created"} /\ Record(e, p, next)
        /\ <<pc, next>> \in {<<"created", "caps">>, <<"caps", "session">>,
                <<"started", "profile">>, <<"baseline", "profiled">>, <<"profiled", "route">>}
  BY DEF Create, Configure, StartCustody, RecordBaseline, RecordProfile, At, Plain, Events, Body
<1>2. CASE AppendFails
  BY <1>1, <1>2, ThrowSteps DEF Body
<1>3. CASE ~AppendFails
  <2>1. /\ log' = Append(log, Entry(e, p)) /\ pc' = next
        /\ UNCHANGED <<files, outputs, torn, temporaries, case, result, faults>>
    BY <1>1, <1>3 DEF Record, Goto
  <2>2. /\ pc \in Early /\ pc' \in Early \cup {"seal"}
        /\ (pc' \in Body \cup {"created"} => pc \in Body \cup {"created"})
    BY <1>1, <2>1 DEF Early, Body
  <2>3. UNCHANGED <<files, outputs, torn, temporaries, case, run, written, exit, faults>>
        /\ status' = status /\ failure' = failure
    BY <2>1 DEF result
  <2>4. Shaped' /\ InOrder' /\ OnDisk' /\ Whole' /\ OutputsFit'
    BY <1>1, <2>1, <2>2, <2>3, EarlyRecord
  <2>5. FinalOf(log') = {}
    BY <1>1, <2>1, <2>2, <2>3, EarlyRecord
  <2>7. Rested'
    BY <1>1, <2>1, <2>2, <2>3, <2>5
      DEF IInv, Shaped, Rested, Body, case, Early, Late, Sealing, ExitIsEarned
  <2> QED BY <2>4, <2>7 DEF IInv
<1> QED BY <1>2, <1>3

-------------------------------------------------------------------------------
\* From the handler to the sealing.

LEMMA HandleStep == ASSUME IInv, Handle PROVE IInv'
<1>1. exit = Running /\ pc = "handle" /\ failure \in HandlerEvents
  BY DEF Handle, At, IInv, Rested
<1>2. CASE AppendFails \/ Unencodable
  BY <1>1, <1>2, ThrowSteps
<1>3. CASE ~(AppendFails \/ Unencodable)
  <2>1. /\ log' = Append(log, Entry(failure, NoPayload)) /\ pc' = "close"
        /\ UNCHANGED <<files, outputs, torn, temporaries, case, result, faults>>
    BY <1>3 DEF Handle, Record, Goto
  <2>2. failure \in Plain /\ failure # "custody.final.completed"
    BY <1>1 DEF Plain, Events, HandlerEvents
  <2>3. UNCHANGED <<files, outputs, torn, temporaries, case, run, written, exit, faults>>
        /\ status' = status
    BY <2>1 DEF result
  <2>4. pc \in Early /\ pc' \in Early \cup {"seal"} /\ pc' \notin Body \cup {"created"}
    BY <1>1, <2>1 DEF Early, Body
  <2>5. /\ Shaped' /\ InOrder' /\ OnDisk' /\ Whole' /\ OutputsFit'
        /\ FinalOf(log') = {}
    BY <1>1, <2>1, <2>2, <2>3, <2>4, EarlyRecord
  <2>6. Rested'
    BY <1>1, <2>1, <2>3, <2>5 DEF IInv, Rested, case, Early, Late, Sealing, Body, ExitIsEarned
  <2> QED BY <2>5, <2>6 DEF IInv
<1> QED BY <1>2, <1>3

LEMMA CloseStep == ASSUME IInv, Close PROVE IInv'
<1>1. exit = Running /\ pc = "close" /\ pc' = "unmounted" /\ pc \in Early /\ pc' \in Early
  BY DEF Close, At, Early
<1>2. UNCHANGED <<log, files, outputs, torn, temporaries, written, status, run, exit>>
      /\ UNCHANGED <<evidence, baseline, profile, required>>
      /\ (faults' = faults \/ Fault) /\ released' \in {released, FALSE}
      /\ session' = IF session = "open" THEN "closed" ELSE session
  BY DEF Close, bundle, result
<1>3. InOrder' /\ OnDisk' /\ Whole'
  BY <1>1, <1>2, EarlyDisk
<1>4. OutputsFit'
  BY <1>1, <1>2, OutputsKept DEF Body
<1>5. faults' \in Nat /\ faults' =< MaxFaults /\ faults =< faults'
  BY <1>2, LifecycleAssumption DEF IInv, Shaped, Fault
<1>8. released' \in BOOLEAN
  <2>1. released' = released \/ released' = FALSE
    BY <1>2
  <2> QED BY <2>1 DEF IInv, Shaped
<1>6. Shaped'
  BY <1>1, <1>2, <1>5, <1>8 DEF IInv, Shaped, Places
<1>7. Rested'
  BY <1>1, <1>2 DEF IInv, Shaped, Rested, Early, Late, Sealing, Body, ExitIsEarned
<1> QED BY <1>3, <1>4, <1>6, <1>7 DEF IInv

LEMMA CheckReleasedStep == ASSUME IInv, CheckReleased PROVE IInv'
<1>1. exit = Running /\ pc = "unmounted" /\ pc' = "final" /\ pc \in Early /\ pc' \in Early
      /\ released
  BY DEF CheckReleased, At, Early, Goto
<1>2. UNCHANGED <<bundle, case, result, faults>>
  BY DEF CheckReleased, Goto
<1>3. InOrder' /\ OnDisk' /\ Whole'
  BY <1>1, <1>2, EarlyDisk DEF bundle, result
<1>4. OutputsFit'
  BY <1>1, <1>2, OutputsKept DEF Body, bundle
<1>5. Shaped'
  BY <1>1, <1>2 DEF IInv, Shaped, Places, bundle, case, result
<1>6. Rested'
  BY <1>1, <1>2 DEF IInv, Shaped, Rested, Early, Late, Sealing, Body,
      ExitIsEarned, bundle, case, result
<1> QED BY <1>3, <1>4, <1>5, <1>6 DEF IInv

LEMMA ReportUnreleasedStep == ASSUME IInv, ReportUnreleased PROVE IInv'
<1>1. exit = Running /\ pc = "unmounted" /\ ~released
  BY DEF ReportUnreleased, At
<1>2. CASE AppendFails
  BY <1>1, <1>2, ThrowSteps
<1>3. CASE ~AppendFails
  <2>1. /\ log' = Append(log, Entry("mount.release_failed", NoPayload)) /\ pc' = "final"
        /\ status' = "FATAL"
        /\ UNCHANGED <<files, outputs, torn, temporaries, case, run, written, exit, faults>>
    BY <1>3 DEF ReportUnreleased, Goto
  <2>2. "mount.release_failed" \in Plain
    BY DEF Plain, Events
  <2>3. pc \in Early /\ pc' \in Early \cup {"seal"} /\ pc' \notin Body \cup {"created"}
    BY <1>1, <2>1 DEF Early, Body
  <2>4. /\ Shaped' /\ InOrder' /\ OnDisk' /\ Whole' /\ OutputsFit'
        /\ FinalOf(log') = {}
    BY <1>1, <2>1, <2>2, <2>3, EarlyRecord
  <2>5. Rested'
    BY <1>1, <2>1, <2>4 DEF IInv, Rested, case, Early, Late, Sealing, Body, ExitIsEarned
  <2> QED BY <2>4, <2>5 DEF IInv
<1> QED BY <1>2, <1>3

LEMMA StartFinalStep == ASSUME IInv, StartFinal PROVE IInv'
<1>1. exit = Running /\ pc = "final"
  BY DEF StartFinal, At
<1>2. CASE AppendFails
  BY <1>1, <1>2, ThrowSteps
<1>3. CASE required /\ ~AppendFails
  <2>1. /\ log' = Append(log, Entry("custody.final.started", NoPayload)) /\ pc' = "rehash"
        /\ UNCHANGED <<files, outputs, torn, temporaries, case, result, faults>>
    BY <1>3 DEF StartFinal, Record, Goto
  <2>2. "custody.final.started" \in Plain
    BY DEF Plain, Events
  <2>3. UNCHANGED <<files, outputs, torn, temporaries, case, run, written, exit, faults>>
        /\ status' = status
    BY <2>1 DEF result
  <2>4. pc \in Early /\ pc' \in Early \cup {"seal"} /\ pc' \notin Body \cup {"created"}
    BY <1>1, <2>1 DEF Early, Body
  <2>5. /\ Shaped' /\ InOrder' /\ OnDisk' /\ Whole' /\ OutputsFit'
        /\ FinalOf(log') = {}
    BY <1>1, <2>1, <2>2, <2>3, <2>4, EarlyRecord
  <2>6. Rested'
    BY <1>1, <2>1, <2>3, <2>5 DEF IInv, Rested, case, Early, Late, Sealing, Body, ExitIsEarned
  <2> QED BY <2>5, <2>6 DEF IInv
<1>4. CASE ~required
  <2>1. pc' = "seal" /\ UNCHANGED <<bundle, case, result, faults>>
    BY <1>4 DEF StartFinal, Goto
  <2>2. InOrder' /\ OnDisk' /\ Whole'
    BY <1>1, <2>1, EarlyDisk DEF Early, bundle, result
  <2>3. OutputsFit'
    BY <1>1, <2>1, OutputsKept DEF Body, bundle
  <2>4. Shaped'
    BY <1>1, <2>1 DEF IInv, Shaped, Places, Sealing, bundle, case, result
  <2>5. Rested'
    BY <1>1, <1>4, <2>1 DEF IInv, Shaped, Rested, Early, Late, Sealing, Body,
      ExitIsEarned, bundle, case, result
  <2> QED BY <2>2, <2>3, <2>4, <2>5 DEF IInv
<1> QED BY <1>2, <1>3, <1>4

LEMMA VerifyCustodyStep == ASSUME IInv, VerifyCustody PROVE IInv'
<1>1. exit = Running /\ pc = "rehash" /\ pc \in Early
  BY DEF VerifyCustody, At, Early
<1>2. CASE AppendFails
  BY <1>1, <1>2, ThrowSteps
<1>3. CASE evidence = baseline /\ ~AppendFails
  <2> DEFINE p == [hashes |-> evidence, released |-> released]
  <2>1. /\ log' = Append(log, Entry("custody.final.completed", p)) /\ pc' = "seal"
        /\ UNCHANGED <<files, outputs, torn, temporaries, case, result, faults>>
    BY <1>3 DEF VerifyCustody, Record, Goto
  <2>2. "custody.final.completed" \in Plain
    BY DEF Plain, Events
  <2>3. UNCHANGED <<files, outputs, torn, temporaries, case, run, written, exit, faults>>
        /\ status' = status
    BY <2>1 DEF result
  <2>4. pc \in Early /\ pc' \in Early \cup {"seal"} /\ pc' \notin Body \cup {"created"}
    BY <1>1, <2>1 DEF Early, Body
  <2>5. /\ Shaped' /\ InOrder' /\ OnDisk' /\ Whole' /\ OutputsFit'
        /\ FinalOf(log') = {p}
    BY <1>1, <2>1, <2>2, <2>3, <2>4, EarlyRecord
  <2>6. status # "FATAL" => p = [hashes |-> baseline, released |-> TRUE]
    <3>1. status # "FATAL" => released = TRUE
      BY <1>1 DEF IInv, Shaped, Rested, Late
    <3> QED BY <1>3, <3>1
  <2>8. status' # "FATAL" => FinalOf(log') = {[hashes |-> baseline', released |-> TRUE]}
    BY <2>3, <2>5, <2>6 DEF case
  <2> HIDE DEF p
  <2>7. Rested'
    BY <1>1, <2>1, <2>3, <2>8 DEF IInv, Rested, case, Early, Late, Sealing, Body, ExitIsEarned
  <2> QED BY <2>5, <2>7 DEF IInv
<1>4. CASE evidence # baseline
  <2>1. /\ pc' = "mismatched" /\ status' = "FATAL"
        /\ UNCHANGED <<bundle, case, run, failure, written, exit, faults>>
    BY <1>4 DEF VerifyCustody, Goto
  <2>2. InOrder' /\ OnDisk' /\ Whole'
    BY <1>1, <2>1, EarlyDisk DEF Early, bundle
  <2>3. OutputsFit'
    BY <1>1, <2>1, OutputsKept DEF Body, bundle
  <2>4. Shaped'
    BY <1>1, <2>1 DEF IInv, Shaped, Places, bundle, case
  <2>5. Rested'
    BY <1>1, <2>1 DEF IInv, Shaped, Rested, Early, Late, Sealing, Body,
      ExitIsEarned, bundle, case
  <2> QED BY <2>2, <2>3, <2>4, <2>5 DEF IInv
<1> QED BY <1>2, <1>3, <1>4

LEMMA ReportMismatchStep == ASSUME IInv, ReportMismatch PROVE IInv'
<1>1. exit = Running /\ pc = "mismatched" /\ status = "FATAL"
  BY DEF ReportMismatch, At, IInv, Rested
<1>2. CASE AppendFails \/ Unencodable
  BY <1>1, <1>2, ThrowSteps
<1>3. CASE ~(AppendFails \/ Unencodable)
  <2>1. /\ log' = Append(log, Entry("custody.mismatch", NoPayload)) /\ pc' = "seal"
        /\ UNCHANGED <<files, outputs, torn, temporaries, case, result, faults>>
    BY <1>3 DEF ReportMismatch, Record, Goto
  <2>2. "custody.mismatch" \in Plain
    BY DEF Plain, Events
  <2>3. UNCHANGED <<files, outputs, torn, temporaries, case, run, written, exit, faults>>
        /\ status' = status
    BY <2>1 DEF result
  <2>4. pc \in Early /\ pc' \in Early \cup {"seal"} /\ pc' \notin Body \cup {"created"}
    BY <1>1, <2>1 DEF Early, Body
  <2>5. /\ Shaped' /\ InOrder' /\ OnDisk' /\ Whole' /\ OutputsFit'
        /\ FinalOf(log') = {}
    BY <1>1, <2>1, <2>2, <2>3, <2>4, EarlyRecord
  <2>6. Rested'
    BY <1>1, <2>1, <2>3, <2>5 DEF IInv, Rested, case, Early, Late, Sealing, Body, ExitIsEarned
  <2> QED BY <2>5, <2>6 DEF IInv
<1> QED BY <1>2, <1>3

-------------------------------------------------------------------------------
\* The sealing.

LEMMA WrittenFits ==
    ASSUME InOrder
    PROVE  /\ written \in Seq(Names) /\ Len(written) \in Nat /\ Len(written) =< Len(ToWrite)
           /\ Range(written) \subseteq Names
<1>1. ToWrite \in Seq(Names) /\ Len(ToWrite) \in Nat /\ DOMAIN ToWrite = 1..Len(ToWrite)
  BY WritesRoot, LenProperties
<1>2. Len(written) \in 0..Len(ToWrite) /\ written = SubSeq(ToWrite, 1, Len(written))
  BY DEF InOrder
<1>3. \A i \in 1..Len(written) : ToWrite[i] \in Names
  BY <1>1, <1>2, ElementOfSeq
<1>4. written \in Seq(Names)
  BY <1>1, <1>2, <1>3, SubSeqProperties
<1> QED BY <1>1, <1>2, <1>4, RangeOfSeq

\* One more file.
LEMMA WritesNext ==
    ASSUME InOrder, Len(written) < Len(ToWrite), NEW name, name = ToWrite[Len(written) + 1],
           written' = Append(written, name), profile' = profile
    PROVE  InOrder' /\ Range(written') = Range(written) \cup {name} /\ name \in Names
<1>1. /\ ToWrite \in Seq(Names) /\ Len(ToWrite) \in Nat
      /\ written \in Seq(Names) /\ Len(written) \in Nat
  BY WritesRoot, WrittenFits, LenProperties
<1> DEFINE n == Len(written)
<1>2. name \in Names
  BY <1>1, ElementOfSeq
<1>3. /\ written' \in Seq(Names) /\ Len(written') = n + 1
      /\ written'[n + 1] = name /\ \A i \in 1..n : written'[i] = written[i]
  BY <1>1, <1>2, AppendProperties
<1>4. \A i \in 1..n : written[i] = ToWrite[i]
  <2>1. \A i \in 1..n : ToWrite[i] \in Names
    BY <1>1, ElementOfSeq
  <2>2. \A i \in 1..n : SubSeq(ToWrite, 1, n)[i] = ToWrite[1 + i - 1]
    BY <1>1, <2>1, SubSeqProperties
  <2>3. written = SubSeq(ToWrite, 1, n)
    BY DEF InOrder
  <2> QED BY <1>1, <2>2, <2>3
<1>5. written' = SubSeq(ToWrite, 1, n + 1)
  <2>1. \A i \in 1..(n + 1) : ToWrite[i] \in Names
    BY <1>1, ElementOfSeq
  <2> DEFINE t == SubSeq(ToWrite, 1, n + 1)
  <2>2. t \in Seq(Names) /\ Len(t) = n + 1 /\ \A i \in 1..(n + 1) : t[i] = ToWrite[i]
    <3>1. /\ t \in Seq(Names) /\ Len(t) = IF 1 =< n + 1 THEN n + 1 - 1 + 1 ELSE 0
          /\ \A i \in 1..(n + 1 - 1 + 1) : t[i] = ToWrite[1 + i - 1]
      BY <1>1, <2>1, SubSeqProperties
    <3> HIDE DEF t
    <3> QED BY <1>1, <3>1
  <2>3. \A i \in 1..(n + 1) : written'[i] = t[i]
    <3> TAKE i \in 1..(n + 1)
    <3>1. i \in 1..n \/ i = n + 1
      BY <1>1
    <3> HIDE DEF t
    <3> QED BY <1>3, <1>4, <2>2, <3>1
  <2> HIDE DEF t
  <2>4. written' = t
    BY <1>3, <2>2, <2>3, SeqEqual
  <2> QED BY <2>4 DEF t
<1>6. ToWrite' = ToWrite
  BY DEF ToWrite
<1>7. InOrder'
  BY <1>1, <1>3, <1>5, <1>6 DEF InOrder
<1>8. Range(written') = Range(written) \cup {name}
  <2>1. DOMAIN written' = 1..(n + 1) /\ DOMAIN written = 1..n
    BY <1>1, <1>3, LenProperties
  <2>2. 1..(n + 1) = 1..n \cup {n + 1}
    BY <1>1
  <2> QED BY <1>3, <2>1, <2>2 DEF Range
<1> QED BY <1>2, <1>7, <1>8

\* The parts of the invariant that a write does not touch.
LEMMA SealingKeeps ==
    ASSUME IInv, exit = Running, pc \in Sealing \cup {"manifest", "checksum"},
           pc' \in Sealing \cup {"manifest", "checksum", "verify"},
           UNCHANGED <<log, outputs, torn, case, run, status, exit, faults>>,
           temporaries' \subseteq Names \cup {Manifest, Detached}
    PROVE  Shaped' /\ OutputsFit' /\ Rested'
<1>1. pc # "damaged" /\ pc' # "damaged" /\ pc' # "end" /\ pc' \in Places
      /\ pc' \notin Early /\ pc' \notin Body
  BY DEF Sealing, Places, Early, Body
<1>2. Shaped'
  BY <1>1 DEF IInv, Shaped, case
<1>3. OutputsFit'
  BY <1>1, OutputsKept DEF Body, Sealing
<1>4. Rested'
  BY <1>1 DEF IInv, Rested, case, Sealing, Late, Body, ExitIsEarned
<1> QED BY <1>2, <1>3, <1>4

\* A write that fails leaves a directory without the checksum, or with all of it.
LEMMA WriteFails ==
    ASSUME IInv, exit = Running, pc \in {"seal", "manifest", "checksum"}, Throw("OSError"),
           Fault,
           UNCHANGED <<log, outputs, torn, case, run, written, exit>>,
           temporaries' \subseteq Names \cup {Manifest, Detached},
           \A n \in DOMAIN files' : files'[n] # Damaged,
           Detached \in DOMAIN files' => AllThere' /\ pc # "seal"
    PROVE  IInv'
<1>1. /\ status' = status /\ failure' = "OSError"
      /\ pc' = IF pc = "seal" THEN "finalize" ELSE "escape"
  BY DEF Throw, Body, Sealing
<1>2. IsLog(log') /\ FinalOf(log') = FinalOf(log) /\ torn' \in BOOLEAN
  BY DEF IInv, Shaped
<1>3. Shaped' /\ InOrder' /\ Rested'
  BY <1>2, ThrowKeeps DEF Exceptions
<1>4. OutputsFit'
  BY <1>1, OutputsKept DEF Body
<1>5. OnDisk'
  BY <1>1 DEF OnDisk, Early, Body, Sealing
<1>6. Whole'
  BY <1>1 DEF Whole
<1> QED BY <1>3, <1>4, <1>5, <1>6 DEF IInv

LEMMA ReplacedFits ==
    ASSUME NEW name, NEW content, files' = Replaced(name, content)
    PROVE  /\ DOMAIN files' = DOMAIN files \cup {name} /\ files'[name] = content
           /\ \A n \in DOMAIN files : n # name => files'[n] = files[n]
  BY DEF Replaced

\* A root artifact is never the content that nothing is made from.
LEMMA ContentIsWhole ==
    ASSUME NEW name \in Names, name # "profile.json" \/ profile = {[hashes |-> baseline]}
    PROVE  Content(name) # Damaged
<1>1. CASE name = "report.md"
  BY <1>1 DEF Content, Report, Damaged
<1>2. CASE name = "profile.json"
  <2>1. Content(name) = [hashes |-> baseline]
    BY <1>2 DEF Content
  <2> QED BY <2>1 DEF Damaged
<1>3. CASE name = "environment.json"
  BY <1>3 DEF Content, Damaged
<1>4. CASE name = "summary.json"
  <2>1. Content(name) = Summary /\ "status" \in DOMAIN Summary
    BY <1>4 DEF Content, Summary, BuildSummary
  <2> QED BY <2>1 DEF Damaged
<1>5. CASE name = "viewer.html"
  <2>1. Content(name) = RenderViewer(log, status, Summary, Report)
    BY <1>5 DEF Content
  <2> QED BY <2>1 DEF RenderViewer, Damaged
<1> QED BY <1>1, <1>2, <1>3, <1>4, <1>5 DEF Names

LEMMA SealStep == ASSUME IInv, Seal PROVE IInv'
<1> DEFINE n == Len(written)
           name == Head(Unwritten)
<1>1. exit = Running /\ pc = "seal" /\ Unwritten # <<>>
  BY DEF Seal, At
<1>2. /\ ToWrite \in Seq(Names) /\ Len(ToWrite) \in Nat /\ n \in Nat /\ n =< Len(ToWrite)
      /\ written \in Seq(Names) /\ Range(written) \subseteq Names
  BY WritesRoot, WrittenFits, LenProperties DEF IInv
<1>3. n < Len(ToWrite)
  <2>1. n = Len(ToWrite) => Unwritten = <<>>
    BY <1>2, SubSeqEmpty DEF Unwritten
  <2> QED BY <1>1, <1>2, <2>1
<1>4. name = ToWrite[n + 1] /\ name \in Names /\ Len(Unwritten) = Len(ToWrite) - n
  <2>1. n + 1 \in 1..Len(ToWrite) /\ Len(ToWrite) \in (n + 1)..Len(ToWrite)
    BY <1>2, <1>3
  <2>2. name = ToWrite[n + 1]
    BY <1>2, <2>1, HeadTailOfSubSeq DEF Unwritten
  <2>3. name \in Names
    BY <1>2, <2>1, <2>2, ElementOfSeq
  <2>4. \A i \in (n + 1)..Len(ToWrite) : ToWrite[i] \in Names
    BY <1>2, ElementOfSeq
  <2>5. Len(Unwritten) = IF n + 1 =< Len(ToWrite) THEN Len(ToWrite) - (n + 1) + 1 ELSE 0
    BY <1>2, <2>4, SubSeqProperties DEF Unwritten
  <2> QED BY <1>2, <1>3, <2>2, <2>3, <2>5
<1>5. Content(name) # Damaged
  <2>1. profile = {} => "profile.json" \notin Range(ToWrite)
    BY DEF ToWrite, Range
  <2>2. name \in Range(ToWrite)
    BY <1>2, <1>3, <1>4, LenProperties DEF Range
  <2> QED BY <1>4, <2>1, <2>2, ContentIsWhole DEF IInv, Shaped
<1>6. /\ DOMAIN files = Range(written) /\ temporaries \in {{}, {name}}
      /\ \A f \in DOMAIN files : files[f] # Damaged
  BY <1>1, <1>4 DEF IInv, OnDisk, Sealing
<1>7. Detached \notin Names /\ Manifest \notin Names /\ Range(RootArtifacts) = Names
  BY WritesRoot
<1> HIDE DEF name, n
<1>8. CASE torn /\ name = "summary.json"
  <2>1. Throw("AuditError") /\ UNCHANGED <<bundle, case, run, written, exit, faults>>
    BY <1>8 DEF Seal, name
  <2>2. OnDisk' /\ Whole' /\ OutputsFit'
    BY <1>1, <2>1, ThrowOnDisk DEF bundle
  <2>3. IsLog(log') /\ FinalOf(log') = FinalOf(log) /\ torn' \in BOOLEAN
        /\ temporaries' \subseteq Names \cup {Manifest, Detached}
    BY <1>1, <2>1 DEF IInv, Shaped, bundle
  <2>4. Shaped' /\ InOrder' /\ Rested'
    BY <1>1, <2>1, <2>3, ThrowKeeps DEF Exceptions
  <2> QED BY <2>2, <2>4 DEF IInv
<1>9. CASE Write(name, Content(name), IF Len(Unwritten) = 1 THEN "receipts" ELSE "seal")
  <2>1. CASE /\ temporaries' = temporaries \cup {name}
             /\ UNCHANGED <<pc, log, files, outputs, torn, case, result, faults>>
    <3>1. temporaries' = {name}
      BY <1>6, <2>1
    <3>2. Shaped' /\ OutputsFit' /\ Rested'
      BY <1>1, <1>4, <2>1, <3>1, SealingKeeps DEF Sealing, result
    <3>3. InOrder'
      BY <2>1 DEF IInv, InOrder, ToWrite, result, case
    <3>4. OnDisk'
      BY <1>1, <1>3, <1>4, <1>6, <2>1, <3>1 DEF OnDisk, result, case, ToWrite,
         n, Early, Body, Sealing
    <3>5. Whole'
      BY <1>1, <1>2, <1>6, <1>7, <2>1 DEF Whole, result
    <3> QED BY <3>2, <3>3, <3>4, <3>5 DEF IInv
  <2>2. CASE /\ Throw("OSError") /\ Fault /\ files' \in {files, Replaced(name, Content(name))}
             /\ temporaries' \subseteq {name}
             /\ UNCHANGED <<log, outputs, torn, case, run, written, exit>>
    <3>1. \A f \in DOMAIN files' : files'[f] # Damaged /\ f \in Names
      <4>1. CASE files' = files
        BY <4>1, <1>6, <1>2
      <4>2. CASE files' = Replaced(name, Content(name))
        <5>1. /\ DOMAIN files' = DOMAIN files \cup {name} /\ files'[name] = Content(name)
              /\ \A f \in DOMAIN files : f # name => files'[f] = files[f]
          BY <4>2, ReplacedFits
        <5> QED BY <1>2, <1>4, <1>5, <1>6, <5>1
      <4> QED BY <4>1, <4>2, <2>2
    <3> QED BY <1>1, <1>4, <1>7, <2>2, <3>1, WriteFails
  <2>3. CASE /\ temporaries' = temporaries \ {name}
             /\ files' = Replaced(name, Content(name))
             /\ written' = Append(written, name)
             /\ Goto(IF Len(Unwritten) = 1 THEN "receipts" ELSE "seal")
             /\ UNCHANGED <<log, outputs, torn, case, run, status, failure, exit>>
    <3>1. temporaries' = {} /\ pc' \in {"receipts", "seal"} /\ faults' = faults
      BY <1>6, <2>3 DEF Goto
    <3>2. Shaped' /\ OutputsFit' /\ Rested'
      BY <1>1, <2>3, <3>1, SealingKeeps DEF Sealing
    <3>3. InOrder' /\ Range(written') = Range(written) \cup {name}
      BY <1>3, <1>4, <2>3, WritesNext DEF IInv, case, n
    <3>4. /\ DOMAIN files' = Range(written')
          /\ \A f \in DOMAIN files' : files'[f] # Damaged
      BY <1>5, <1>6, <2>3, <3>3, ReplacedFits
    <3>5. OnDisk'
      BY <3>1, <3>4 DEF OnDisk, Early, Body, Sealing
    <3>6. Whole'
      BY <1>2, <1>4, <1>7, <3>1, <3>3, <3>4 DEF Whole
    <3> QED BY <3>2, <3>3, <3>5, <3>6 DEF IInv
  <2> QED BY <1>4, <1>6, <1>7, <1>9, <2>1, <2>2, <2>3 DEF Write
<1> QED BY <1>8, <1>9 DEF Seal, name

\* A record of the sealing.
LEMMA SealingRecord ==
    ASSUME IInv, exit = Running, pc \in {"receipts", "complete"},
           pc' \in {"receipts", "complete", "sealed"},
           NEW e \in Plain \ {"custody.final.completed"}, NEW p,
           log' = Append(log, Entry(e, p)),
           UNCHANGED <<files, outputs, torn, temporaries, case, result, faults>>
    PROVE  IInv'
<1>1. IsLog(log)
  BY DEF IInv, Shaped
<1>2. IsLog(log') /\ ToolsOf(log') = ToolsOf(log) /\ FinalOf(log') = FinalOf(log)
  BY <1>1, PlainRecord
<1>3. Shaped'
  BY <1>2 DEF IInv, Shaped, case, result, Places, Sealing
<1>4. InOrder'
  BY DEF IInv, InOrder, ToWrite, case, result
<1>5. OnDisk'
  BY DEF IInv, OnDisk, result, Early, Body, Sealing
<1>6. Detached \notin DOMAIN files
  BY WrittenFits, WritesRoot DEF IInv, OnDisk, Sealing
<1>7. Whole'
  BY <1>6 DEF Whole
<1>8. OutputsFit'
  BY <1>2, ToolsKept DEF IInv, OutputsFit, Body
<1>9. Rested'
  BY <1>2 DEF IInv, Rested, case, result, Sealing, Late, Early, Body, ExitIsEarned
<1> QED BY <1>3, <1>4, <1>5, <1>7, <1>8, <1>9 DEF IInv

LEMMA SealingRecords == ASSUME IInv, RecordWrites \/ RecordCompletion PROVE IInv'
<1>1. PICK e, p, next :
        /\ e \in Plain \ {"custody.final.completed"}
        /\ exit = Running /\ pc \in {"receipts", "complete"} /\ Record(e, p, next)
        /\ next \in {"receipts", "complete", "sealed"}
  BY DEF RecordWrites, RecordCompletion, At, Plain, Events
<1>2. CASE AppendFails
  BY <1>1, <1>2, ThrowSteps
<1>3. CASE ~AppendFails
  <2>1. /\ log' = Append(log, Entry(e, p)) /\ pc' = next
        /\ UNCHANGED <<files, outputs, torn, temporaries, case, result, faults>>
    BY <1>1, <1>3 DEF Record, Goto
  <2> QED BY <1>1, <2>1, SealingRecord
<1> QED BY <1>2, <1>3

LEMMA SealedStep == ASSUME IInv, Sealed PROVE IInv'
<1>1. exit = Running /\ pc = "sealed" /\ UNCHANGED <<bundle, case, run, written, exit>>
      /\ faults' = faults
  BY DEF Sealed, At, Goto
<1>2. CASE torn
  <2>1. Throw("AuditError")
    BY <1>2 DEF Sealed
  <2>2. OnDisk' /\ Whole' /\ OutputsFit'
    BY <1>1, <2>1, ThrowOnDisk DEF bundle
  <2>3. IsLog(log') /\ FinalOf(log') = FinalOf(log) /\ torn' \in BOOLEAN
        /\ temporaries' \subseteq Names \cup {Manifest, Detached}
    BY <1>1 DEF IInv, Shaped, bundle
  <2>4. Shaped' /\ InOrder' /\ Rested'
    BY <1>1, <2>1, <2>3, ThrowKeeps DEF Exceptions
  <2> QED BY <2>2, <2>4 DEF IInv
<1>3. CASE ~torn
  <2>1. pc' = "manifest" /\ UNCHANGED <<status, failure>>
    BY <1>3 DEF Sealed, Goto
  <2>2. temporaries' \subseteq Names \cup {Manifest, Detached}
    BY <1>1 DEF IInv, Shaped, bundle
  <2>3. Shaped' /\ OutputsFit' /\ Rested'
    BY <1>1, <2>1, <2>2, SealingKeeps DEF Sealing, bundle
  <2>4. InOrder'
    BY <1>1 DEF IInv, InOrder, ToWrite, case
  <2>5. OnDisk'
    BY <1>1, <1>3, <2>1 DEF IInv, OnDisk, bundle, Early, Body, Sealing
  <2>6. Detached \notin DOMAIN files
    BY <1>1, WrittenFits, WritesRoot DEF IInv, OnDisk, Sealing
  <2>7. Whole'
    BY <1>1, <2>1, <2>6 DEF Whole, bundle
  <2> QED BY <2>3, <2>4, <2>5, <2>7 DEF IInv
<1> QED BY <1>2, <1>3

LEMMA ReportFinalizationStep == ASSUME IInv, ReportFinalization PROVE IInv'
<1>1. /\ exit = Running /\ pc = "finalize" /\ pc' = "escape" /\ faults' = faults
      /\ UNCHANGED <<files, outputs, temporaries, case, result>>
      /\ \/ log' = Append(log, Entry("bundle.finalization_failed", NoPayload)) /\ torn' = torn
         \/ torn' \in {torn, TRUE} /\ log' = log
  BY DEF ReportFinalization, At, Goto
<1>2. IsLog(log) /\ torn \in BOOLEAN
  BY <1>1 DEF IInv, Shaped
<1>3. "bundle.finalization_failed" \in Plain \ {"custody.final.completed"}
  BY DEF Plain, Events
<1>4. IsLog(log') /\ ToolsOf(log') = ToolsOf(log)
  BY <1>1, <1>2, <1>3, PlainRecord
<1>5. torn' \in BOOLEAN
  <2>1. torn' = torn \/ torn' = TRUE
    BY <1>1
  <2> QED BY <1>2, <2>1
<1>6. Shaped'
  BY <1>1, <1>4, <1>5 DEF IInv, Shaped, case, result, Places
<1>7. InOrder'
  BY <1>1 DEF IInv, InOrder, ToWrite, case, result
<1>8. OnDisk'
  BY <1>1 DEF IInv, OnDisk, result, Early, Body, Sealing
<1>9. Detached \notin DOMAIN files
  BY <1>1 DEF IInv, Whole
<1>10. Whole'
  BY <1>1, <1>9 DEF Whole
<1>11. OutputsFit'
  BY <1>1, <1>4, ToolsKept DEF IInv, OutputsFit, Body
<1>12. Rested'
  BY <1>1 DEF IInv, Rested, case, result, Sealing, Late, Early, Body, ExitIsEarned
<1> QED BY <1>6, <1>7, <1>8, <1>10, <1>11, <1>12 DEF IInv

-------------------------------------------------------------------------------
\* The manifest and its checksum.

\* A file beside those that were written leaves the manifest of them as it would be.
LEMMA ListsTheSame ==
    ASSUME Range(written') = Range(written), Range(written) \subseteq DOMAIN files,
           \A n \in Range(written) : files'[n] = files[n],
           UNCHANGED <<log, outputs, status>>
    PROVE  BuildManifest(files', outputs', log', status', Range(written'), Listed') =
           BuildManifest(files, outputs, log, status, Range(written), Listed)
<1>1. [n \in Range(written') |-> files'[n]] = [n \in Range(written) |-> files[n]]
  OBVIOUS
<1>2. Listed' = Listed
  BY DEF Listed
<1> QED BY <1>1, <1>2 DEF BuildManifest

LEMMA ManifestStep == ASSUME IInv, WriteManifest PROVE IInv'
<1> DEFINE content == BuildManifest(files, outputs, log, status, Range(written), Listed)
<1>1. exit = Running /\ pc = "manifest" /\ Write(Manifest, content, "checksum")
  BY DEF WriteManifest, At, Manifest
<1>2. /\ DOMAIN files = Range(written) /\ temporaries \subseteq {Manifest} /\ ~torn
      /\ \A f \in DOMAIN files : files[f] # Damaged
  BY <1>1 DEF IInv, OnDisk
<1>3. /\ Range(written) \subseteq Names /\ Manifest \notin Names /\ Detached \notin Names
      /\ Manifest # Detached /\ Range(RootArtifacts) = Names
  BY WrittenFits, WritesRoot DEF IInv, Manifest, Detached
<1>4. content # Damaged
  BY DEF BuildManifest, Damaged
<1> HIDE DEF content
<1>5. CASE /\ temporaries' = temporaries \cup {Manifest}
           /\ UNCHANGED <<pc, log, files, outputs, torn, case, result, faults>>
  <2>1. Shaped' /\ OutputsFit' /\ Rested'
    BY <1>1, <1>2, <1>5, SealingKeeps DEF result
  <2>2. InOrder'
    BY <1>5 DEF IInv, InOrder, ToWrite, case, result
  <2>3. OnDisk'
    BY <1>1, <1>2, <1>5 DEF OnDisk, result, Early, Body, Sealing
  <2>4. Whole'
    BY <1>1, <1>2, <1>3, <1>5 DEF Whole
  <2> QED BY <2>1, <2>2, <2>3, <2>4 DEF IInv
<1>6. CASE /\ Throw("OSError") /\ Fault /\ files' \in {files, Replaced(Manifest, content)}
           /\ temporaries' \subseteq {Manifest}
           /\ UNCHANGED <<log, outputs, torn, case, run, written, exit>>
  <2>1. \A f \in DOMAIN files' : files'[f] # Damaged /\ f # Detached
    <3>1. CASE files' = files
      BY <3>1, <1>2, <1>3
    <3>2. CASE files' = Replaced(Manifest, content)
      <4>1. /\ DOMAIN files' = DOMAIN files \cup {Manifest} /\ files'[Manifest] = content
            /\ \A f \in DOMAIN files : f # Manifest => files'[f] = files[f]
        BY <3>2, ReplacedFits
      <4> QED BY <1>2, <1>3, <1>4, <4>1
    <3> QED BY <3>1, <3>2, <1>6
  <2> QED BY <1>1, <1>6, <2>1, WriteFails
<1>7. CASE /\ temporaries' = temporaries \ {Manifest}
           /\ files' = Replaced(Manifest, content) /\ written' = written
           /\ Goto("checksum")
           /\ UNCHANGED <<log, outputs, torn, case, run, status, failure, exit>>
  <2>1. temporaries' = {} /\ pc' = "checksum" /\ faults' = faults
    BY <1>2, <1>7 DEF Goto
  <2>2. Shaped' /\ OutputsFit' /\ Rested'
    BY <1>1, <1>7, <2>1, SealingKeeps
  <2>3. InOrder'
    BY <1>7 DEF IInv, InOrder, ToWrite, case
  <2>4. /\ DOMAIN files' = DOMAIN files \cup {Manifest} /\ files'[Manifest] = content
        /\ \A f \in DOMAIN files : f # Manifest => files'[f] = files[f]
    BY <1>7, ReplacedFits
  <2>5. OnDisk'
    BY <1>2, <1>4, <1>7, <2>1, <2>4 DEF OnDisk, Early, Body, Sealing
  <2>6. Lists'
    <3>1. \A f \in Range(written) : files'[f] = files[f]
      BY <1>2, <1>3, <2>4
    <3>2. BuildManifest(files', outputs', log', status', Range(written'), Listed') = content
      BY <1>2, <1>7, <3>1, ListsTheSame DEF content
    <3> QED BY <2>4, <3>2 DEF Lists
  <2>7. Whole'
    BY <1>2, <1>3, <1>7, <2>1, <2>4, <2>6 DEF Whole
  <2> QED BY <2>2, <2>3, <2>5, <2>7 DEF IInv
<1> QED BY <1>1, <1>2, <1>3, <1>5, <1>6, <1>7 DEF Write

LEMMA ChecksumStep == ASSUME IInv, WriteChecksum PROVE IInv'
<1> DEFINE content == Checksum(files[Manifest])
<1>1. exit = Running /\ pc = "checksum" /\ Write(Detached, content, "verify")
  BY DEF WriteChecksum, At, Manifest, Detached
<1>2. /\ DOMAIN files = Range(written) \cup {Manifest} /\ Lists
      /\ temporaries \subseteq {Detached} /\ ~torn
      /\ \A f \in DOMAIN files : files[f] # Damaged
  BY <1>1 DEF IInv, OnDisk, Whole
<1>3. /\ Range(written) \subseteq Names /\ Manifest \notin Names /\ Detached \notin Names
      /\ Manifest # Detached /\ Range(RootArtifacts) = Names
  BY WrittenFits, WritesRoot DEF IInv, Manifest, Detached
<1>4. content # Damaged
  BY DEF Checksum, Damaged
<1> HIDE DEF content
\* The checksum makes the bundle complete.
<1>5. ASSUME files' = Replaced(Detached, content), temporaries' = {},
             UNCHANGED <<log, outputs, torn, status, written>>
      PROVE  AllThere' /\ \A f \in DOMAIN files' : files'[f] # Damaged
  <2>1. /\ DOMAIN files' = DOMAIN files \cup {Detached} /\ files'[Detached] = content
        /\ \A f \in DOMAIN files : f # Detached => files'[f] = files[f]
    BY <1>5, ReplacedFits
  <2>2. files'[Manifest] = files[Manifest] /\ \A f \in Range(written) : files'[f] = files[f]
    BY <1>2, <1>3, <2>1
  <2>3. BuildManifest(files', outputs', log', status', Range(written'), Listed') =
        BuildManifest(files, outputs, log, status, Range(written), Listed)
    BY <1>2, <1>5, <2>2, ListsTheSame
  <2>4. Lists'
    BY <1>2, <2>2, <2>3 DEF Lists
  <2>5. files'[Detached] = Checksum(files'[Manifest])
    BY <2>1, <2>2 DEF content
  <2>6. DOMAIN files' = Range(written') \cup {Manifest, Detached}
    BY <1>2, <1>5, <2>1
  <2>7. AllThere'
    BY <1>2, <1>5, <2>4, <2>5, <2>6 DEF AllThere
  <2>8. \A f \in DOMAIN files' : files'[f] # Damaged
    BY <1>2, <1>4, <2>1
  <2> QED BY <2>7, <2>8
<1>6. CASE /\ temporaries' = temporaries \cup {Detached}
           /\ UNCHANGED <<pc, log, files, outputs, torn, case, result, faults>>
  <2>1. Shaped' /\ OutputsFit' /\ Rested'
    BY <1>1, <1>2, <1>6, SealingKeeps DEF result
  <2>2. InOrder'
    BY <1>6 DEF IInv, InOrder, ToWrite, case, result
  <2>3. OnDisk'
    BY <1>1, <1>2, <1>6 DEF OnDisk, result, Early, Body, Sealing
  <2>4. Lists' <=> Lists
    BY <1>6 DEF Lists, Listed, result
  <2>5. Whole'
    BY <1>1, <1>2, <1>3, <1>6, <2>4 DEF Whole, result
  <2> QED BY <2>1, <2>2, <2>3, <2>5 DEF IInv
<1>7. CASE /\ Throw("OSError") /\ Fault
           /\ \/ temporaries' \subseteq {Detached} /\ files' = files
              \/ temporaries' = {} /\ files' = Replaced(Detached, content)
           /\ UNCHANGED <<log, outputs, torn, case, run, written, exit>>
  <2>1. status' = status
    BY <1>1, <1>7 DEF Throw, Body
  <2>2. CASE files' = files
    BY <1>1, <1>2, <1>3, <1>7, <2>2, WriteFails
  <2>3. CASE temporaries' = {} /\ files' = Replaced(Detached, content)
    BY <1>1, <1>5, <1>7, <2>1, <2>3, WriteFails
  <2> QED BY <1>7, <2>2, <2>3
<1>8. CASE /\ temporaries' = temporaries \ {Detached}
           /\ files' = Replaced(Detached, content) /\ written' = written
           /\ Goto("verify")
           /\ UNCHANGED <<log, outputs, torn, case, run, status, failure, exit>>
  <2>1. temporaries' = {} /\ pc' = "verify" /\ faults' = faults
    BY <1>2, <1>8 DEF Goto
  <2>2. Shaped' /\ OutputsFit' /\ Rested'
    BY <1>1, <1>8, <2>1, SealingKeeps
  <2>3. InOrder'
    BY <1>8 DEF IInv, InOrder, ToWrite, case
  <2>4. AllThere' /\ \A f \in DOMAIN files' : files'[f] # Damaged
    BY <1>5, <1>8, <2>1
  <2>5. OnDisk'
    BY <1>2, <1>8, <2>1, <2>4 DEF OnDisk, Early, Body, Sealing
  <2>6. Detached \in DOMAIN files'
    BY <1>8, ReplacedFits
  <2>7. Whole'
    BY <2>1, <2>4, <2>6 DEF Whole
  <2> QED BY <2>2, <2>3, <2>5, <2>7 DEF IInv
<1>9. CASE temporaries' = temporaries \ {Detached}
  <2>1. temporaries' = {}
    BY <1>2, <1>9
  <2> QED BY <1>1, <1>3, <1>7, <1>8, <1>9, <2>1 DEF Write
<1> QED BY <1>1, <1>2, <1>3, <1>6, <1>7, <1>9 DEF Write

-------------------------------------------------------------------------------
\* The end of the run.

LEMMA VerifiedTheSame ==
    ASSUME NEW a, NEW b, a <=> b
    PROVE  Verified(files, outputs, log, a) <=> Verified(files, outputs, log, b)
  BY DEF Verified, ProfileBound

\* A step that leaves the bundle and the place of the run alone.
LEMMA BundleKept ==
    ASSUME IInv, UNCHANGED <<log, files, outputs, torn, temporaries, profile, status, written>>,
           pc' = pc \/ (pc \in {"verify", "escape"} /\ pc' = "end")
    PROVE  InOrder' /\ OnDisk' /\ Whole' /\ OutputsFit'
<1>1. InOrder'
  BY DEF IInv, InOrder, ToWrite
<1>2. OnDisk'
  BY DEF IInv, OnDisk, ToWrite, Early, Body, Sealing
<1>3. Lists' <=> Lists
  BY DEF Lists, Listed
<1>4. AllThere' <=> AllThere
  BY <1>3 DEF AllThere
<1>5. Whole'
  <2>1. Verified(files', outputs', log', FALSE) <=> Verified(files, outputs, log, FALSE)
    OBVIOUS
  <2>2. CASE pc' = pc
    BY <1>3, <1>4, <2>1, <2>2 DEF IInv, Whole
  <2>3. CASE pc \in {"verify", "escape"} /\ pc' = "end"
    BY <1>3, <1>4, <2>3 DEF IInv, Whole
  <2> QED BY <2>2, <2>3
<1>6. OutputsFit'
  BY DEF IInv, OutputsFit, Body
<1> QED BY <1>1, <1>2, <1>5, <1>6

LEMMA Codes ==
    ASSUME status \in {"COMPLETE", "FATAL", "INVALID", "PARTIAL"}
    PROVE  /\ ExitCode[status] \in 0..3 /\ ExitCode["FATAL"] = 1
           /\ ExitCode[status] = 0 <=> status = "COMPLETE"
           /\ ExitCode[status] = 1 <=> status = "FATAL"
  BY DEF ExitCode

LEMMA VerifyStep == ASSUME IInv, Verify PROVE IInv'
<1>1. /\ exit = Running /\ pc = "verify" /\ pc' = "end" /\ faults' = faults
      /\ UNCHANGED <<bundle, case, run, status, failure, written>>
      /\ exit' = IF Verified(files, outputs, log, status = "COMPLETE")
                 THEN ExitCode[status] ELSE ExitCode["FATAL"]
  BY DEF Verify, At, Goto
<1>2. InOrder' /\ OnDisk' /\ Whole' /\ OutputsFit'
  BY <1>1, BundleKept DEF bundle, case
<1>3. status \in {"COMPLETE", "FATAL", "INVALID", "PARTIAL"}
  BY DEF IInv, Shaped
<1>4. exit' \in 0..3
  BY <1>1, <1>3, Codes
<1>5. Shaped'
  BY <1>1, <1>4 DEF IInv, Shaped, bundle, case, Places, Running
<1>6. ASSUME exit' \in {0, 2, 3}
      PROVE  /\ ExitCode[status] = exit' /\ status # "FATAL"
             /\ Verified(files, outputs, log, exit' = 0)
             /\ released /\ session # "open" /\ (exit' = 0 => required)
             /\ required => FinalOf(log) = {[hashes |-> baseline, released |-> TRUE]}
  <2>1. Verified(files, outputs, log, status = "COMPLETE") /\ exit' = ExitCode[status]
    BY <1>1, <1>3, <1>6, Codes
  <2>2. status # "FATAL" /\ (exit' = 0 <=> status = "COMPLETE")
    BY <1>3, <1>6, <2>1, Codes
  <2>3. Verified(files, outputs, log, exit' = 0)
    BY <2>1, <2>2, VerifiedTheSame
  <2> QED BY <1>1, <2>1, <2>2, <2>3 DEF IInv, Rested, Late
<1>7. ExitIsEarned'
  <2>1. ASSUME exit' \in {0, 2, 3}
        PROVE  /\ ExitCode[status'] = exit' /\ Verified(files', outputs', log', exit' = 0)
               /\ released' /\ session' # "open" /\ (exit' = 0 => required')
               /\ required' => Payloads(log', "custody.final.completed") =
                                {[hashes |-> baseline', released |-> TRUE]}
    BY <1>1, <1>6, <2>1 DEF bundle, case, FinalOf
  <2> QED BY <2>1 DEF ExitIsEarned
<1>8. Rested'
  BY <1>1, <1>7 DEF IInv, Rested, bundle, case, Late, Early, Sealing, Body
<1> QED BY <1>2, <1>5, <1>8 DEF IInv

LEMMA EscapeStep == ASSUME IInv, Escape PROVE IInv'
<1>1. /\ exit = Running /\ pc = "escape" /\ pc' = "end" /\ faults' = faults
      /\ UNCHANGED <<bundle, evidence, baseline, profile, required, released>>
      /\ UNCHANGED <<run, status, failure, written>>
      /\ session' = IF session = "open" THEN "closed" ELSE session
      /\ exit' = ExitCode[IF failure = "ValueError" THEN "INVALID" ELSE "FATAL"]
  BY DEF Escape, At, Goto
<1>2. InOrder' /\ OnDisk' /\ Whole' /\ OutputsFit'
  BY <1>1, BundleKept DEF bundle
<1>3. exit' = IF failure = "ValueError" THEN 2 ELSE 1
  BY <1>1 DEF ExitCode
<1>4. Shaped'
  BY <1>1, <1>3 DEF IInv, Shaped, bundle, Places, Running
<1>5. failure = "ValueError" => DOMAIN files = {}
  BY <1>1 DEF IInv, Rested
<1>6. ExitIsEarned'
  BY <1>1, <1>3, <1>5 DEF ExitIsEarned, bundle
<1>7. Rested'
  BY <1>1, <1>6 DEF IInv, Rested, bundle, Late, Early, Sealing, Body
<1> QED BY <1>2, <1>4, <1>7 DEF IInv

LEMMA SurroundingSteps == ASSUME IInv, Disturb \/ Kill PROVE IInv'
<1>1. /\ exit = Running /\ Fault /\ pc' = pc /\ pc \notin {"end", "damaged"}
      /\ UNCHANGED <<bundle, session, baseline, profile, required, released>>
      /\ UNCHANGED <<run, status, failure, written>>
      /\ \/ evidence' = evidence + 1 /\ exit' = exit
         \/ evidence' = evidence /\ exit' = Killed
  BY DEF Disturb, Kill, case, result, IInv, Shaped
<1>2. InOrder' /\ OnDisk' /\ Whole' /\ OutputsFit'
  BY <1>1, BundleKept DEF bundle
<1>3. faults' \in Nat /\ faults' =< MaxFaults /\ faults' = faults + 1 /\ faults \in Nat
  BY <1>1, LifecycleAssumption DEF IInv, Shaped, Fault
<1>4. Shaped'
  BY <1>1, <1>3 DEF IInv, Shaped, bundle, Running, Killed
<1>5. Rested'
  BY <1>1 DEF IInv, Rested, bundle, Late, Early, Sealing, Body, ExitIsEarned
<1> QED BY <1>2, <1>4, <1>5 DEF IInv

LEMMA Stutter == ASSUME IInv, UNCHANGED vars PROVE IInv'
<1>1. UNCHANGED <<pc, bundle, case, result, faults>>
  BY DEF vars
<1>2. InOrder' /\ OnDisk' /\ Whole' /\ OutputsFit'
  BY <1>1, BundleKept DEF bundle, case, result
<1>3. Shaped'
  BY <1>1 DEF IInv, Shaped, bundle, case, result
<1>4. Rested'
  <2>1. ExitIsEarned'
    BY <1>1 DEF IInv, Rested, ExitIsEarned, bundle, case, result
  <2> QED BY <1>1, <2>1 DEF IInv, Rested, bundle, case, result
<1> QED BY <1>2, <1>3, <1>4 DEF IInv

-------------------------------------------------------------------------------
\* Damage.

LEMMA VerifiedNeeds ==
    ASSUME NEW f, NEW o, NEW l, NEW s, Verified(f, o, l, s)
    PROVE  /\ Manifest \in DOMAIN f /\ f[Manifest] # Damaged
           /\ Detached \in DOMAIN f /\ f[Detached] = Checksum(f[Manifest])
           /\ ArtifactsMatch(f, o, f[Manifest]) /\ AuditMatches(l, f[Manifest])
           /\ ToolsVerified(o, l, f[Manifest])
  BY DEF Verified, ManifestReadable, ChecksumMatches, Manifest, Detached

\* A complete bundle of which one file, one output or one record has changed or is gone.
LEMMA DamageShows ==
    ASSUME AllThere, IsLog(log), \A n \in DOMAIN files : files[n] # Damaged,
           \A o \in DOMAIN outputs : o # <<>>,
           CallsOf(log, "tool.started") = CallsOf(log, "tool.completed") =>
              DOMAIN outputs = OutputsOf(log),
           \/ /\ \E n \in DOMAIN files :
                  files' \in {[files EXCEPT ![n] = Damaged],
                              Restrict(files, DOMAIN files \ {n})}
              /\ UNCHANGED <<log, outputs>>
           \/ /\ \E o \in DOMAIN outputs :
                  outputs' \in {[outputs EXCEPT ![o] = <<>>],
                                Restrict(outputs, DOMAIN outputs \ {o})}
              /\ UNCHANGED <<log, files>>
           \/ /\ \E i \in DOMAIN log :
                  log' \in {[log EXCEPT ![i].event = "damaged"], RemoveAt(log, i)}
              /\ UNCHANGED <<files, outputs>>
    PROVE  ~Verified(files', outputs', log', FALSE)
<1> SUFFICES ASSUME Verified(files', outputs', log', FALSE) PROVE FALSE
  OBVIOUS
<1>1. /\ Manifest \in DOMAIN files' /\ files'[Manifest] # Damaged
      /\ Detached \in DOMAIN files' /\ files'[Detached] = Checksum(files'[Manifest])
      /\ ArtifactsMatch(files', outputs', files'[Manifest])
      /\ AuditMatches(log', files'[Manifest])
      /\ ToolsVerified(outputs', log', files'[Manifest])
  BY VerifiedNeeds
<1>2. DOMAIN files = Range(written) \cup {Manifest, Detached}
      /\ files[Detached] = Checksum(files[Manifest])
  BY DEF AllThere
<1>3. /\ files[Manifest].audit = log
      /\ DOMAIN files[Manifest].artifacts = Range(written)
      /\ \A n \in Range(written) : files[Manifest].artifacts[n] = files[n]
  BY DEF AllThere, Lists, BuildManifest
<1>4. CASE \E n \in DOMAIN files : files' = [files EXCEPT ![n] = Damaged]
  <2>1. PICK n \in DOMAIN files : files' = [files EXCEPT ![n] = Damaged]
    BY <1>4
  <2>2. files'[n] = Damaged
    BY <2>1
  <2>3. CASE n = Manifest
    BY <1>1, <2>2, <2>3
  <2>4. CASE n = Detached
    BY <1>1, <2>2, <2>4 DEF Checksum, Damaged
  <2>5. CASE n \in Range(written) /\ n # Manifest
    <3>1. files'[Manifest] = files[Manifest]
      BY <2>1, <2>5, <1>2
    <3>2. files'[n] = files[n]
      BY <1>1, <1>3, <2>5, <3>1 DEF ArtifactsMatch
    <3> QED BY <2>1, <2>2, <3>2
  <2> QED BY <1>2, <2>1, <2>3, <2>4, <2>5
<1>5. CASE \E n \in DOMAIN files : files' = Restrict(files, DOMAIN files \ {n})
  <2>1. PICK n \in DOMAIN files : files' = Restrict(files, DOMAIN files \ {n})
    BY <1>5
  <2>2. n \notin DOMAIN files' /\ \A m \in DOMAIN files : m # n => files'[m] = files[m]
    BY <2>1 DEF Restrict
  <2>3. n # Manifest /\ n # Detached
    BY <1>1, <2>2
  <2>4. n \in Range(written) /\ files'[Manifest] = files[Manifest]
    BY <1>2, <2>1, <2>2, <2>3
  <2> QED BY <1>1, <1>3, <2>2, <2>4 DEF ArtifactsMatch
<1>6. CASE \E o \in DOMAIN outputs : outputs' = [outputs EXCEPT ![o] = <<>>]
  <2>1. PICK o \in DOMAIN outputs : outputs' = [outputs EXCEPT ![o] = <<>>]
    BY <1>6
  <2>2. o \in DOMAIN outputs' /\ outputs'[o] = <<>>
    BY <2>1
  <2>3. outputs'[o] = o
    BY <1>1, <2>2 DEF ToolsVerified
  <2> QED BY <2>1, <2>2, <2>3
<1>7. CASE (\E o \in DOMAIN outputs : outputs' = Restrict(outputs, DOMAIN outputs \ {o}))
          /\ log' = log
  <2>1. PICK o \in DOMAIN outputs : outputs' = Restrict(outputs, DOMAIN outputs \ {o})
    BY <1>7
  <2>2. o \notin DOMAIN outputs'
    BY <2>1 DEF Restrict
  <2>3. DOMAIN outputs' = OutputsOf(log)
        /\ CallsOf(log, "tool.started") = CallsOf(log, "tool.completed")
    BY <1>1, <1>7 DEF ToolsVerified
  <2> QED BY <2>1, <2>2, <2>3
<1>8. CASE files' = files /\ \E i \in DOMAIN log : log' = [log EXCEPT ![i].event = "damaged"]
  <2>1. PICK i \in DOMAIN log : log' = [log EXCEPT ![i].event = "damaged"]
    BY <1>8
  <2>2. log' = log
    BY <1>1, <1>3, <1>8 DEF AuditMatches
  <2>3. log[i] = Entry(log[i].event, log[i].payload) /\ log[i].event \in Events
    BY DEF IsLog
  <2>4. log'[i].event = "damaged"
    BY <2>1, <2>3 DEF Entry
  <2> QED BY <2>2, <2>3, <2>4 DEF Events
<1>9. CASE files' = files /\ \E i \in DOMAIN log : log' = RemoveAt(log, i)
  <2>1. PICK i \in DOMAIN log : log' = RemoveAt(log, i)
    BY <1>9
  <2>2. log' = log
    BY <1>1, <1>3, <1>9 DEF AuditMatches
  <2>3. log \in Seq(Range(log)) /\ Len(log) \in Nat /\ i \in 1..Len(log)
    BY LenProperties DEF IsLog
  <2>4. \A j \in 1..Len(log) : log[j] \in Range(log)
    BY <2>3, LenProperties DEF Range
  <2> DEFINE a == SubSeq(log, 1, i - 1)
             b == SubSeq(log, i + 1, Len(log))
  <2>5. a \in Seq(Range(log)) /\ Len(a) = i - 1
    <3>1. a \in Seq(Range(log)) /\ Len(a) = IF 1 =< i - 1 THEN i - 1 - 1 + 1 ELSE 0
      BY <2>3, <2>4, SubSeqProperties
    <3> HIDE DEF a
    <3> QED BY <2>3, <3>1
  <2>6. b \in Seq(Range(log)) /\ Len(b) = Len(log) - i
    <3>1. /\ b \in Seq(Range(log))
          /\ Len(b) = IF i + 1 =< Len(log) THEN Len(log) - (i + 1) + 1 ELSE 0
      BY <2>3, <2>4, SubSeqProperties
    <3> HIDE DEF b
    <3> QED BY <2>3, <3>1
  <2>7. log' = a \o b
    BY <2>1 DEF RemoveAt
  <2> HIDE DEF a, b
  <2>8. Len(log') = Len(log) - 1
    BY <2>3, <2>5, <2>6, <2>7, ConcatProperties
  <2> QED BY <2>2, <2>3, <2>8
<1> QED BY <1>4, <1>5, <1>6, <1>7, <1>8, <1>9

LEMMA DamageStep == ASSUME IInv, Damage PROVE IInv'
<1>1. exit # Running /\ pc # "damaged" /\ pc' = "damaged" /\ Fault
      /\ UNCHANGED <<torn, temporaries, case, result>>
  BY DEF Damage
<1>2. ~Verified(files', outputs', log', FALSE)
  <2>1. CASE Detached \in DOMAIN files
    <3>1. AllThere /\ IsLog(log) /\ \A n \in DOMAIN files : files[n] # Damaged
      BY <1>1, <2>1 DEF IInv, Whole, Shaped, OnDisk
    <3>2. /\ \A o \in DOMAIN outputs : o # <<>>
          /\ CallsOf(log, "tool.started") = CallsOf(log, "tool.completed") =>
                DOMAIN outputs = OutputsOf(log)
      BY <1>1 DEF IInv, OutputsFit
    <3> QED BY <3>1, <3>2, DamageShows DEF Damage
  <2>2. CASE Detached \notin DOMAIN files
    <3>1. DOMAIN files' \subseteq DOMAIN files
      BY DEF Damage, Restrict
    <3> QED BY <2>2, <3>1, VerifiedNeeds
  <2> QED BY <2>1, <2>2
<1>3. InOrder'
  BY <1>1 DEF IInv, InOrder, ToWrite, case, result
<1>4. OnDisk' /\ Whole' /\ OutputsFit'
  BY <1>1, <1>2 DEF OnDisk, Whole, OutputsFit, Early, Body, Sealing
<1>5. faults' \in Nat /\ faults' =< MaxFaults /\ faults =< faults'
  BY <1>1, LifecycleAssumption DEF IInv, Shaped, Fault
<1>6. Shaped'
  BY <1>1, <1>5 DEF IInv, Shaped, case, result
<1>7. Rested'
  BY <1>1 DEF IInv, Rested, case, result, Late, Early, Sealing, Body, ExitIsEarned
<1> QED BY <1>3, <1>4, <1>6, <1>7 DEF IInv

-------------------------------------------------------------------------------
\* The agent.

\* Records of one event, with the payloads of a sequence.
OfEvent(s, n, e, f) ==
    /\ n \in Nat /\ e \in Events /\ s \in [1..n -> Range(s)]
    /\ \A i \in 1..n : s[i] = Entry(e, f[i])
Values(f, n) == {f[i] : i \in 1..n}

LEMMA SameEvent ==
    ASSUME NEW n, NEW e, NEW f, NEW s, OfEvent(s, n, e, f)
    PROVE  /\ IsLog(s) /\ Len(s) = n
           /\ \A d : Payloads(s, d) = IF d = e THEN Values(f, n) ELSE {}
<1> DEFINE P == Values(f, n)
<1> USE DEF OfEvent
<1>1. DOMAIN s = 1..n /\ \A i \in 1..n : s[i] = Entry(e, f[i])
  OBVIOUS
<1>6. P = {f[i] : i \in 1..n}
  BY DEF Values
<1> HIDE DEF P
<1>2. \A i \in 1..n : s[i].event = e /\ s[i].payload = f[i]
  BY <1>1, IsEntry
<1>3. s \in Seq(Range(s)) /\ Len(s) = n
  <2>1. s \in [1..n -> Range(s)]
    BY <1>1 DEF Range
  <2> QED BY <2>1
<1>4. IsLog(s)
  BY <1>1, <1>2, <1>3 DEF IsLog
<1>5. ASSUME NEW d PROVE Payloads(s, d) = IF d = e THEN P ELSE {}
  <2>1. CASE d = e
    <3>1. Indices(s, d) = 1..n
      BY <1>1, <1>2, <2>1 DEF Indices
    <3>2. {s[i].payload : i \in 1..n} = {f[i] : i \in 1..n}
      BY <1>2
    <3> QED BY <2>1, <3>1, <3>2, <1>6 DEF Payloads
  <2>2. CASE d # e
    <3>1. Indices(s, d) = {}
      BY <1>1, <1>2, <2>2 DEF Indices
    <3> QED BY <2>2, <3>1 DEF Payloads
  <2> QED BY <2>1, <2>2
<1> QED BY <1>3, <1>4, <1>5 DEF P

\* A set as a sequence: each element once.
LEMMA Listing ==
    ASSUME NEW S, IsFiniteSet(S)
    PROVE  /\ Cardinality(S) \in Nat /\ SetToSeq(S) \in [1..Cardinality(S) -> S]
           /\ {SetToSeq(S)[i] : i \in 1..Cardinality(S)} = S
<1> DEFINE n == Cardinality(S)
           I == 1..n
<1>1. n \in Nat /\ ExistsBijection(I, S)
  BY FS_CardinalityType
<1>2. \E g \in [I -> S] : IsInjective(g)
  BY <1>1, Zenon DEF ExistsBijection, Bijection, Injection, IsInjective
<1> DEFINE f == SetToSeq(S)
<1>3. f \in [I -> S] /\ IsInjective(f)
  BY <1>2 DEF SetToSeq
<1> HIDE DEF f
<1>4. f \in Injection(I, S)
  BY <1>3, Zenon DEF Injection, IsInjective
<1>5. IsFiniteSet(I) /\ Cardinality(I) = n
  BY <1>1, FS_Interval
<1>6. f \in Surjection(I, S)
  BY <1>4, <1>5, FS_Injection
<1>7. {f[i] : i \in I} = S
  BY <1>3, <1>6 DEF Surjection
<1> QED BY <1>1, <1>3, <1>7 DEF f

Receipt(c, receipts) ==
    [call |-> c, status |-> receipts[c].status, output |-> receipts[c].output]

\* A start and a receipt for every call, and nothing else.
BatchFits(batch, receipts) ==
    /\ IsLog(batch)
    /\ Len(batch) = Cardinality(DOMAIN receipts) + Cardinality(DOMAIN receipts)
    /\ Payloads(batch, "tool.started") = {[call |-> c] : c \in DOMAIN receipts}
    /\ Payloads(batch, "tool.completed") = {Receipt(c, receipts) : c \in DOMAIN receipts}
    /\ Payloads(batch, "custody.final.completed") = {}

\* The first n of them, of one call.
PartFits(part, n, c, receipts) ==
    /\ IsLog(part)
    /\ Payloads(part, "custody.final.completed") = {}
    /\ Payloads(part, "tool.started") = IF n = 0 THEN {} ELSE {[call |-> c]}
    /\ Payloads(part, "tool.completed") = IF n = 2 THEN {Receipt(c, receipts)} ELSE {}

LEMMA BatchRecords ==
    ASSUME NEW receipts, IsFiniteSet(DOMAIN receipts)
    PROVE  BatchFits(BatchLog(receipts), receipts)
<1> DEFINE C == DOMAIN receipts
           calls == SetToSeq(C)
           n == Cardinality(C)
           f == [i \in 1..n |-> [call |-> calls[i]]]
           g == [i \in 1..n |-> Receipt(calls[i], receipts)]
           s == [i \in 1..n |-> Entry("tool.started", f[i])]
           t == [i \in 1..n |-> Entry("tool.completed", g[i])]
           Cs == {[call |-> c] : c \in C}
           Rs == {Receipt(c, receipts) : c \in C}
<1>1. n \in Nat /\ calls \in [1..n -> C] /\ {calls[i] : i \in 1..n} = C
  BY Listing
<1>2. DOMAIN calls = 1..n
  BY <1>1
<1> HIDE DEF calls, n
<1>3. BatchLog(receipts) = s \o t
  <2>1. [i \in DOMAIN calls |-> Started(calls[i])] = s
    BY <1>2 DEF Started
  <2>2. [i \in DOMAIN calls |-> Completed(calls[i], receipts)] = t
    BY <1>2 DEF Completed, Receipt
  <2> QED BY <2>1, <2>2 DEF BatchLog, calls
<1>4. "tool.started" \in Events /\ "tool.completed" \in Events
  BY DEF Events
<1>5. {f[i] : i \in 1..n} = {[call |-> c] : c \in C}
  BY <1>1
<1>6. {g[i] : i \in 1..n} = {Receipt(c, receipts) : c \in C}
  BY <1>1
<1>12. Cs = Values(f, n) /\ Rs = Values(g, n)
  BY <1>5, <1>6 DEF Values
<1> HIDE DEF f, g, Cs, Rs
<1>11. OfEvent(s, n, "tool.started", f) /\ OfEvent(t, n, "tool.completed", g)
  BY <1>1, <1>4 DEF Range, OfEvent
<1> HIDE DEF s, t
<1>7. /\ IsLog(s) /\ Len(s) = n
      /\ \A d : Payloads(s, d) = IF d = "tool.started" THEN Cs ELSE {}
  BY <1>11, <1>12, SameEvent
<1>8. /\ IsLog(t) /\ Len(t) = n
      /\ \A d : Payloads(t, d) = IF d = "tool.completed" THEN Rs ELSE {}
  BY <1>11, <1>12, SameEvent
<1>9. /\ IsLog(s \o t) /\ Len(s \o t) = Len(s) + Len(t)
      /\ \A d : Payloads(s \o t, d) = Payloads(s, d) \cup Payloads(t, d)
  BY <1>7, <1>8, Joined
<1>10. /\ Payloads(s, "tool.started") = Cs
       /\ Payloads(t, "tool.started") = {}
       /\ Payloads(s, "tool.completed") = {}
       /\ Payloads(t, "tool.completed") = Rs
       /\ Payloads(s, "custody.final.completed") = {}
       /\ Payloads(t, "custody.final.completed") = {}
  BY <1>7, <1>8
<1> QED BY <1>3, <1>7, <1>8, <1>9, <1>10 DEF n, Cs, Rs, BatchFits

\* A whole batch leaves the outputs that its receipts name.
LEMMA RetainedFits ==
    ASSUME NEW receipts, \A c \in DOMAIN receipts : receipts[c].output \in Outputs, NEW l,
           Payloads(l, "tool.completed") = {Receipt(c, receipts) : c \in DOMAIN receipts},
           outputs' = Retained(receipts)
    PROVE  /\ DOMAIN outputs' = OutputsOf(l)
           /\ \A o \in DOMAIN outputs' : outputs'[o] = o /\ o # <<>>
<1> DEFINE R == {receipts[c].output : c \in DOMAIN receipts}
<1>1. DOMAIN outputs' = R /\ \A o \in R : outputs'[o] = o
  BY DEF Retained
<1>2. OutputsOf(l) = R
  <2>1. ASSUME NEW c \in DOMAIN receipts PROVE receipts[c].output \in OutputsOf(l)
    <3>1. Receipt(c, receipts) \in Payloads(l, "tool.completed")
      OBVIOUS
    <3>2. Receipt(c, receipts).output = receipts[c].output
      BY DEF Receipt
    <3> QED BY <3>1, <3>2 DEF OutputsOf
  <2>2. ASSUME NEW o \in OutputsOf(l) PROVE o \in R
    <3>1. PICK p \in Payloads(l, "tool.completed") : o = p.output
      BY DEF OutputsOf
    <3>2. PICK c \in DOMAIN receipts : p = Receipt(c, receipts)
      BY <3>1
    <3> QED BY <3>1, <3>2 DEF Receipt
  <2> QED BY <2>1, <2>2
<1>3. \A o \in R : o # <<>>
  BY LifecycleAssumption
<1> QED BY <1>1, <1>2, <1>3

LEMMA AgentEnding ==
    ASSUME IInv, exit = Running, pc = "agent",
           NEW receipts, IsFiniteSet(DOMAIN receipts),
           \A c \in DOMAIN receipts : receipts[c].output \in Outputs,
           NEW findings, NEW verdicts, NEW ended \in {"COMPLETE", "PARTIAL"},
           NEW caps \in SUBSET {"cap"}, AgentEnds(receipts, findings, verdicts, ended, caps)
    PROVE  IInv'
<1> DEFINE Other == Events \ {"tool.started", "tool.completed", "custody.final.completed"}
           first == <<Entry("investigation.started", NoPayload)>>
           batch == BatchLog(receipts)
           found == IF findings = {} /\ ended = "PARTIAL" THEN <<>>
                    ELSE <<Entry("investigator.finished", findings)>>
           judged == IF verdicts = {} /\ ended = "PARTIAL" THEN <<>>
                     ELSE <<Entry("judge.completed", verdicts)>>
           fired == [i \in 1..Cardinality(caps) |-> Entry("cap.fired", NoPayload)]
           last == <<Entry("investigation.completed", NoPayload)>>
           Quiet(s) == IsLog(s) /\ ToolsOf(s) = <<{}, {}>> /\ FinalOf(s) = {}
<1>1. /\ log' = log \o first \o batch \o found \o judged \o fired \o last
      /\ outputs' = Retained(receipts)
      /\ run' = {[status |-> ended, cap |-> caps]} /\ status' = ended
      /\ pc' = "close" /\ faults' = faults
      /\ UNCHANGED <<files, torn, temporaries, case, failure, written, exit>>
  BY DEF AgentEnds, Goto
<1>2. ASSUME NEW e \in Other, NEW p
      PROVE  Quiet(<<Entry(e, p)>>)
  BY <1>2, OneEntry DEF ToolsOf, FinalOf
<1>3. Quiet(<<>>)
  BY NoEntry DEF ToolsOf, FinalOf
<1>4. /\ "investigation.started" \in Other /\ "investigator.finished" \in Other
      /\ "judge.completed" \in Other /\ "cap.fired" \in Other
      /\ "investigation.completed" \in Other
  BY DEF Events
<1>5. Quiet(fired)
  <2>1. Cardinality(caps) \in Nat
    BY FS_Singleton, FS_Subset, FS_CardinalityType
  <2> DEFINE f == [i \in 1..Cardinality(caps) |-> NoPayload]
             s == [i \in 1..Cardinality(caps) |-> Entry("cap.fired", f[i])]
  <2>2. fired = s
    OBVIOUS
  <2>5. OfEvent(s, Cardinality(caps), "cap.fired", f)
    BY <1>4, <2>1 DEF Range, OfEvent
  <2> HIDE DEF f, s, fired
  <2>3. /\ IsLog(s)
        /\ \A d : Payloads(s, d) = IF d = "cap.fired" THEN Values(f, Cardinality(caps)) ELSE {}
    BY <2>5, SameEvent
  <2>4. ToolsOf(s) = <<{}, {}>> /\ FinalOf(s) = {}
    BY <2>3 DEF ToolsOf, FinalOf
  <2> QED BY <2>2, <2>3, <2>4
<1>6. Quiet(first) /\ Quiet(found) /\ Quiet(judged) /\ Quiet(last)
  <2>1. Quiet(first) /\ Quiet(last)
    BY <1>2, <1>4
  <2>2. Quiet(found)
    <3>1. found \in {<<>>, <<Entry("investigator.finished", findings)>>}
      OBVIOUS
    <3> HIDE DEF found, Quiet
    <3> QED BY <1>2, <1>3, <1>4, <3>1
  <2>3. Quiet(judged)
    <3>1. judged \in {<<>>, <<Entry("judge.completed", verdicts)>>}
      OBVIOUS
    <3> HIDE DEF judged, Quiet
    <3> QED BY <1>2, <1>3, <1>4, <3>1
  <2> QED BY <2>1, <2>2, <2>3
<1>7. Quiet(log)
  BY Zenon DEF IInv, Shaped, OutputsFit, Rested, Early, Body
<1>8. /\ IsLog(batch) /\ FinalOf(batch) = {}
      /\ Payloads(batch, "tool.started") = {[call |-> c] : c \in DOMAIN receipts}
      /\ Payloads(batch, "tool.completed") = {Receipt(c, receipts) : c \in DOMAIN receipts}
  BY BatchRecords DEF FinalOf, BatchFits
<1> HIDE DEF first, batch, found, judged, fired, last
\* Quiet records around the batch leave its receipts and its calls.
<1>9. ASSUME NEW s, NEW t, IsLog(s), Quiet(t), FinalOf(s) = {}
      PROVE  IsLog(s \o t) /\ ToolsOf(s \o t) = ToolsOf(s) /\ FinalOf(s \o t) = {}
  <2>1. IsLog(s \o t) /\ \A d : Payloads(s \o t, d) = Payloads(s, d) \cup Payloads(t, d)
    BY <1>9, Joined
  <2>2. Payloads(t, "tool.started") = {} /\ Payloads(t, "tool.completed") = {}
    BY <1>9 DEF ToolsOf
  <2> QED BY <1>9, <2>1, <2>2 DEF ToolsOf, FinalOf
<1>10. Quiet(log \o first)
  BY <1>6, <1>7, <1>9
<1>11. /\ IsLog(log \o first \o batch) /\ FinalOf(log \o first \o batch) = {}
       /\ ToolsOf(log \o first \o batch) = ToolsOf(batch)
  <2> DEFINE u == log \o first
  <2>1. Quiet(u)
    BY <1>10
  <2> HIDE DEF u
  <2>2. IsLog(u \o batch)
        /\ \A d : Payloads(u \o batch, d) = Payloads(u, d) \cup Payloads(batch, d)
    BY <1>8, <2>1, Joined
  <2>3. Payloads(u, "tool.started") = {} /\ Payloads(u, "tool.completed") = {}
    BY <2>1 DEF ToolsOf
  <2>4. ToolsOf(u \o batch) = ToolsOf(batch) /\ FinalOf(u \o batch) = {}
    BY <1>8, <2>1, <2>2, <2>3 DEF ToolsOf, FinalOf
  <2> QED BY <2>2, <2>4 DEF u
<1> HIDE DEF Quiet
<1>12. IsLog(log') /\ FinalOf(log') = {} /\ ToolsOf(log') = ToolsOf(batch)
  <2> DEFINE u == log \o first \o batch
             v == u \o found
             w == v \o judged
             x == w \o fired
             y == x \o last
  <2>1. IsLog(u) /\ FinalOf(u) = {} /\ ToolsOf(u) = ToolsOf(batch)
    BY <1>11
  <2> HIDE DEF u
  <2>2. IsLog(v) /\ FinalOf(v) = {} /\ ToolsOf(v) = ToolsOf(batch)
    BY <2>1, <1>6, <1>9
  <2> HIDE DEF v
  <2>3. IsLog(w) /\ FinalOf(w) = {} /\ ToolsOf(w) = ToolsOf(batch)
    BY <2>2, <1>6, <1>9
  <2> HIDE DEF w
  <2>4. IsLog(x) /\ FinalOf(x) = {} /\ ToolsOf(x) = ToolsOf(batch)
    BY <2>3, <1>5, <1>9
  <2> HIDE DEF x
  <2>5. IsLog(y) /\ FinalOf(y) = {} /\ ToolsOf(y) = ToolsOf(batch)
    BY <2>4, <1>6, <1>9
  <2> QED BY <1>1, <2>5 DEF u, v, w, x
<1>13. InOrder' /\ OnDisk' /\ Whole'
  BY <1>1, EarlyDisk DEF Early, Body
<1>14. Shaped'
  BY <1>1, <1>12 DEF IInv, Shaped, case, Places
<1>15. OutputsFit'
  <2>1. Payloads(log', "tool.completed") = {Receipt(c, receipts) : c \in DOMAIN receipts}
    BY <1>8, <1>12 DEF ToolsOf
  <2>2. /\ DOMAIN outputs' = OutputsOf(log')
        /\ \A o \in DOMAIN outputs' : outputs'[o] = o /\ o # <<>>
    BY <1>1, <2>1, RetainedFits
  <2> QED BY <1>1, <2>2 DEF OutputsFit, Body
<1>16. required
  BY DEF IInv, Rested
<1>17. Rested'
  BY <1>1, <1>12, <1>16 DEF Rested, case, Late, Early, Sealing, Body, ExitIsEarned
<1> QED BY <1>13, <1>14, <1>15, <1>17 DEF IInv

LEMMA AgentEndsStep == ASSUME IInv, AgentCompletes \/ AgentStops PROVE IInv'
<1>1. exit = Running /\ pc = "agent"
  BY DEF AgentCompletes, AgentStops, At
<1>2. ASSUME NEW S, NEW r \in ReceiptsOver(S)
      PROVE  /\ DOMAIN r = Calls /\ IsFiniteSet(DOMAIN r)
             /\ \A c \in DOMAIN r : r[c].output \in Outputs
  BY LifecycleAssumption DEF ReceiptsOver
<1>3. CASE AgentCompletes
  <2>1. PICK receipts \in ReceiptsOver({"success", "error"}) :
          \E findings, verdicts : AgentEnds(receipts, findings, verdicts, "COMPLETE", {})
    BY <1>3, Zenon DEF AgentCompletes
  <2>2. PICK findings, verdicts : AgentEnds(receipts, findings, verdicts, "COMPLETE", {})
    BY <2>1
  <2>3. /\ DOMAIN receipts = Calls /\ IsFiniteSet(DOMAIN receipts)
        /\ \A c \in DOMAIN receipts : receipts[c].output \in Outputs
    BY <1>2, <2>1
  <2> QED BY <1>1, <2>2, <2>3, AgentEnding
<1>4. CASE AgentStops
  <2>1. PICK receipts \in ReceiptsOver({"success", "capped"}), caps \in SUBSET {"cap"} :
          \E findings, verdicts : AgentEnds(receipts, findings, verdicts, "PARTIAL", caps)
    BY <1>4, Zenon DEF AgentStops
  <2>2. PICK findings, verdicts : AgentEnds(receipts, findings, verdicts, "PARTIAL", caps)
    BY <2>1
  <2>3. /\ DOMAIN receipts = Calls /\ IsFiniteSet(DOMAIN receipts)
        /\ \A c \in DOMAIN receipts : receipts[c].output \in Outputs
    BY <1>2, <2>1
  <2> QED BY <1>1, <2>1, <2>2, <2>3, AgentEnding
<1> QED BY <1>3, <1>4

LEMMA OneTerm ==
    ASSUME NEW S, NEW s \in [1..1 -> S]
    PROVE  s \in Seq(S) /\ Len(s) = 1
<1>1. 1 \in Nat
  OBVIOUS
<1>2. s \in Seq(S)
  BY <1>1, SeqDef
<1> QED BY <1>2, LenProperties

\* The beginnings of the batch of one call.
LEMMA OneCall ==
    ASSUME NEW c, NEW receipts, DOMAIN receipts = {c},
           NEW n \in {0, 1, 2}
    PROVE  /\ Len(BatchLog(receipts)) = 2
           /\ PartFits(SubSeq(BatchLog(receipts), 1, n), n, c, receipts)
<1> DEFINE batch == BatchLog(receipts)
           part == SubSeq(batch, 1, n)
<1> SUFFICES Len(batch) = 2 /\ PartFits(part, n, c, receipts)
  OBVIOUS
<1>1. IsFiniteSet(DOMAIN receipts) /\ Cardinality(DOMAIN receipts) = 1
  BY FS_Singleton
<1>2. /\ IsLog(batch) /\ Len(batch) = 2
      /\ Payloads(batch, "tool.started") = {[call |-> d] : d \in DOMAIN receipts}
      /\ Payloads(batch, "tool.completed") = {Receipt(d, receipts) : d \in DOMAIN receipts}
      /\ Payloads(batch, "custody.final.completed") = {}
  <2>1. BatchFits(batch, receipts)
    BY <1>1, BatchRecords
  <2> HIDE DEF batch
  <2> QED BY <1>1, <2>1 DEF BatchFits
<1>3. /\ Payloads(batch, "tool.started") = {[call |-> c]}
      /\ Payloads(batch, "tool.completed") = {Receipt(c, receipts)}
  BY <1>2
<1>4. CASE n = 0
  <2>1. part = <<>>
    BY <1>4, SubSeqEmpty
  <2> HIDE DEF part, batch
  <2>2. IsLog(part) /\ \A e : Payloads(part, e) = {}
    BY <2>1, NoEntry
  <2> QED BY <1>2, <1>4, <2>2 DEF PartFits
<1>5. CASE n = 2
  <2>1. part = batch
    BY <1>2, <1>5, SubSeqFull DEF IsLog
  <2> HIDE DEF part, batch
  <2> QED BY <1>2, <1>3, <1>5, <2>1 DEF PartFits
<1>6. CASE n = 1
  <2> DEFINE one == <<Entry("tool.started", [call |-> c])>>
  <2>1. batch[1] = Entry("tool.started", [call |-> c])
    <3> DEFINE calls == SetToSeq(DOMAIN receipts)
               s == [i \in DOMAIN calls |-> Started(calls[i])]
               t == [i \in DOMAIN calls |-> Completed(calls[i], receipts)]
               R == Range(s) \cup Range(t)
    <3>1. calls \in [1..1 -> {c}]
      BY <1>1, Listing
    <3>2. DOMAIN calls = 1..1 /\ calls[1] = c
      BY <3>1
    <3> HIDE DEF calls
    <3>7. /\ DOMAIN s = 1..1 /\ DOMAIN t = 1..1
          /\ s = [i \in 1..1 |-> Started(calls[i])]
          /\ t = [i \in 1..1 |-> Completed(calls[i], receipts)]
      BY <3>2
    <3>8. \A i \in 1..1 : s[i] \in R /\ t[i] \in R
      BY <3>7 DEF Range
    <3>3. s \in [1..1 -> R] /\ t \in [1..1 -> R]
      <4> HIDE DEF R
      <4> QED BY <3>7, <3>8
    <3>4. s[1] = Entry("tool.started", [call |-> c])
      BY <3>2 DEF Started
    <3> HIDE DEF s, t, R
    <3>5. s \in Seq(R) /\ t \in Seq(R) /\ Len(s) = 1 /\ Len(t) = 1
      BY <3>3, OneTerm
    <3>6. (s \o t)[1] = s[1]
      BY <3>5
    <3> QED BY <3>4, <3>6 DEF BatchLog, calls, s, t
  <2>2. /\ batch \in Seq(Range(batch)) /\ DOMAIN batch = 1..2
    BY <1>2, LenProperties DEF IsLog
  <2>3. \A i \in 1..1 : batch[i] \in Range(batch)
    BY <2>2 DEF Range
  <2>4. /\ part \in Seq(Range(batch)) /\ Len(part) = 1 /\ part[1] = batch[1]
    <3>1. /\ part \in Seq(Range(batch)) /\ Len(part) = IF 1 =< 1 THEN 1 - 1 + 1 ELSE 0
          /\ \A i \in 1..(1 - 1 + 1) : part[i] = batch[1 + i - 1]
      BY <1>6, <2>3, SubSeqProperties
    <3> HIDE DEF part
    <3> QED BY <3>1
  <2>5. one \in Seq(Range(batch)) /\ Len(one) = 1
        /\ one[1] = Entry("tool.started", [call |-> c])
    BY <2>1, <2>2 DEF Range
  <2> HIDE DEF part, one, batch
  <2>6. part = one
    BY <2>1, <2>4, <2>5, SeqEqual
  <2>7. "tool.started" \in Events
    BY DEF Events
  <2>8. IsLog(one)
        /\ \A d : Payloads(one, d) = IF d = "tool.started" THEN {[call |-> c]} ELSE {}
    BY <2>7, OneEntry DEF one
  <2>9. /\ Payloads(part, "tool.started") = {[call |-> c]}
        /\ Payloads(part, "tool.completed") = {}
        /\ Payloads(part, "custody.final.completed") = {}
    BY <2>6, <2>8
  <2> QED BY <1>2, <1>6, <2>6, <2>8, <2>9 DEF PartFits
<1> QED BY <1>4, <1>5, <1>6

LEMMA AgentRaisesStep == ASSUME IInv, AgentRaises PROVE IInv'
<1>1. /\ exit = Running /\ pc = "agent" /\ Fault
      /\ UNCHANGED <<files, torn, temporaries, case, run, written, exit>>
  BY DEF AgentRaises, At
<1>2. PICK exception \in {"ValueError", "OSError", "KeyboardInterrupt"}, c \in Calls,
           output \in Outputs :
        LET receipts == [d \in {c} |-> [status |-> "success", output |-> output]]
            batch == BatchLog(receipts)
        IN  /\ \E n \in (IF exception = "ValueError" THEN {0, Len(batch)} ELSE 0..Len(batch)) :
                /\ log' = log \o <<Entry("investigation.started", NoPayload)>>
                              \o SubSeq(batch, 1, n)
                /\ outputs' \in {IF n = Len(batch) THEN Retained(receipts) ELSE <<>>}
                                \cup (IF n = 1 THEN {Retained(receipts)} ELSE {})
            /\ Throw(exception)
  BY DEF AgentRaises
<1> DEFINE receipts == [d \in {c} |-> [status |-> "success", output |-> output]]
           batch == BatchLog(receipts)
           first == <<Entry("investigation.started", NoPayload)>>
<1>3. DOMAIN receipts = {c} /\ \A d \in DOMAIN receipts : receipts[d].output \in Outputs
  OBVIOUS
<1>4. Throw(exception)
  BY <1>2
<1>5. PICK n \in (IF exception = "ValueError" THEN {0, Len(batch)} ELSE 0..Len(batch)) :
        /\ log' = log \o first \o SubSeq(batch, 1, n)
        /\ outputs' \in {IF n = Len(batch) THEN Retained(receipts) ELSE <<>>}
                        \cup (IF n = 1 THEN {Retained(receipts)} ELSE {})
  BY <1>2
<1> HIDE DEF receipts, first
<1>6. Len(batch) = 2
  <2>1. IsFiniteSet(DOMAIN receipts) /\ Cardinality(DOMAIN receipts) = 1
    BY <1>3, FS_Singleton
  <2>2. BatchFits(batch, receipts)
    BY <2>1, BatchRecords
  <2> HIDE DEF batch
  <2> QED BY <2>1, <2>2 DEF BatchFits
<1>7. n \in {0, 1, 2}
  BY <1>5, <1>6
<1> DEFINE part == SubSeq(batch, 1, n)
<1>8. /\ IsLog(part) /\ Payloads(part, "custody.final.completed") = {}
      /\ Payloads(part, "tool.started") = IF n = 0 THEN {} ELSE {[call |-> c]}
      /\ Payloads(part, "tool.completed") = IF n = 2 THEN {Receipt(c, receipts)} ELSE {}
  <2>1. PartFits(part, n, c, receipts)
    BY <1>3, <1>7, OneCall
  <2> HIDE DEF part
  <2> QED BY <2>1 DEF PartFits
<1>9. /\ log' = log \o first \o part
      /\ \/ n = 2 /\ outputs' = Retained(receipts)
         \/ n # 2 /\ outputs' = <<>>
         \/ n = 1 /\ outputs' = Retained(receipts)
  BY <1>5, <1>6
<1> HIDE DEF part, batch
<1>10. IsLog(log) /\ ToolsOf(log) = <<{}, {}>> /\ FinalOf(log) = {}
  BY <1>1 DEF IInv, Shaped, OutputsFit, Rested, Early, Body
<1>11. /\ IsLog(first)
       /\ \A d : Payloads(first, d) = IF d = "investigation.started" THEN {NoPayload} ELSE {}
  BY OneEntry DEF first, Events
<1>12. /\ IsLog(log \o first)
       /\ \A d : Payloads(log \o first, d) = Payloads(log, d) \cup Payloads(first, d)
  BY <1>10, <1>11, Joined
<1>13. /\ IsLog(log')
       /\ \A d : Payloads(log', d) = Payloads(log \o first, d) \cup Payloads(part, d)
  BY <1>8, <1>9, <1>12, Joined
<1>14. /\ Payloads(log', "tool.started") = Payloads(part, "tool.started")
       /\ Payloads(log', "tool.completed") = Payloads(part, "tool.completed")
       /\ FinalOf(log') = {}
  BY <1>8, <1>10, <1>11, <1>12, <1>13 DEF ToolsOf, FinalOf
<1>15. pc' = "handle"
  BY <1>1, <1>4 DEF Throw, Body
<1>16. OutputsFit'
  <2>1. CASE outputs' = Retained(receipts)
    <3>1. DOMAIN outputs' = {output} /\ \A o \in DOMAIN outputs' : outputs'[o] = o /\ o # <<>>
      BY <2>1, LifecycleAssumption DEF Retained, receipts
    <3>2. CASE n = 2
      <4>1. Payloads(log', "tool.completed") = {Receipt(d, receipts) : d \in DOMAIN receipts}
        BY <1>3, <1>8, <1>14, <3>2
      <4>2. DOMAIN outputs' = OutputsOf(log')
        BY <1>3, <2>1, <4>1, RetainedFits
      <4> QED BY <1>15, <3>1, <4>2 DEF OutputsFit, Body
    <3>3. CASE n # 2
      <4>1. CallsOf(log', "tool.started") # CallsOf(log', "tool.completed")
        <5>1. n # 0
          <6>1. CASE outputs' = <<>>
            BY <3>1, <6>1
          <6>2. CASE n = 1
            BY <6>2
          <6> QED BY <1>9, <3>3, <6>1, <6>2
        <5>2. /\ Payloads(log', "tool.started") = {[call |-> c]}
              /\ Payloads(log', "tool.completed") = {}
          BY <1>8, <1>14, <3>3, <5>1
        <5>3. c \in CallsOf(log', "tool.started") /\ CallsOf(log', "tool.completed") = {}
          BY <5>2 DEF CallsOf
        <5> QED BY <5>3
      <4> QED BY <1>15, <3>1, <4>1 DEF OutputsFit, Body
    <3> QED BY <3>2, <3>3
  <2>2. CASE n # 2 /\ outputs' = <<>>
    <3>1. DOMAIN outputs' = {}
      BY <2>2
    <3>2. OutputsOf(log') = {}
      BY <1>8, <1>14, <2>2 DEF OutputsOf
    <3> QED BY <1>15, <3>1, <3>2 DEF OutputsFit, Body
  <2> QED BY <1>9, <2>1, <2>2
<1>17. InOrder' /\ OnDisk' /\ Whole'
  BY <1>1, <1>15, EarlyDisk DEF Early, Body
<1>18. Shaped' /\ Rested'
  <2>1. torn' \in BOOLEAN /\ temporaries' \subseteq Names \cup {Manifest, Detached}
    BY <1>1 DEF IInv, Shaped
  <2> QED BY <1>1, <1>4, <1>10, <1>13, <1>14, <2>1, ThrowKeeps DEF Exceptions, Body
<1> QED BY <1>16, <1>17, <1>18 DEF IInv

-------------------------------------------------------------------------------
\* The theorems.

LEMMA Initially == Init => IInv
<1> SUFFICES ASSUME Init PROVE IInv
  OBVIOUS
<1>1. Len(ToWrite) \in {4, 5} /\ SubSeq(ToWrite, 1, 0) = <<>>
  BY WritesRoot, SubSeqEmpty
<1>2. Range(<<>>) = {} /\ DOMAIN <<>> = {} /\ Len(<<>>) = 0
  BY DEF Range
<1>3. InOrder
  BY <1>1, <1>2 DEF Init, InOrder
<1>4. OnDisk /\ Whole
  BY <1>2 DEF Init, OnDisk, Whole, Early, Sealing
<1>5. /\ IsLog(log) /\ ToolsOf(log) = <<{}, {}>> /\ FinalOf(log) = {}
  BY NoEntry DEF Init, ToolsOf, FinalOf
<1>6. OutputsFit
  <2>1. OutputsOf(log) = {}
    BY <1>5 DEF ToolsOf, OutputsOf
  <2> QED BY <1>2, <1>5, <2>1 DEF Init, OutputsFit
<1>7. Shaped
  <2>1. /\ pc \in Places /\ exit = Running /\ pc = "created" /\ -1 \in -2..3
        /\ 0 \in Nat /\ 0 =< MaxFaults /\ status = "FATAL" /\ session = "none"
    BY LifecycleAssumption DEF Init, Places
  <2>2. profile = {} /\ run = {} /\ temporaries = {} /\ torn = FALSE /\ required = FALSE
        /\ released = TRUE /\ faults = 0 /\ evidence = 0 /\ baseline = 0
    BY DEF Init
  <2>3. exit \in -2..3 /\ exit # 0
    BY <2>1 DEF Running
  <2>4. profile \in {{}, {[hashes |-> baseline]}} /\ \A r, s \in run : r = s
    BY <2>2
  <2>5. IsLog(log) /\ pc \in Places \cup {"damaged"} /\ pc \notin {"end", "damaged"}
    BY <1>5, <2>1
  <2>6. evidence =< faults /\ baseline =< evidence /\ faults =< MaxFaults
    BY <2>1, <2>2
  <2> QED BY <2>1, <2>2, <2>3, <2>4, <2>5, <2>6 DEF Shaped
<1>8. Rested
  BY <1>5 DEF Init, Rested, Early, Late, Sealing, Body, ExitIsEarned
<1> QED BY <1>3, <1>4, <1>6, <1>7, <1>8 DEF IInv

LEMMA NextKeeps == IInv /\ [Next]_vars => IInv'
<1> SUFFICES ASSUME IInv, [Next]_vars PROVE IInv'
  OBVIOUS
<1>1. CASE UNCHANGED vars
  BY <1>1, Stutter
<1>2. CASE RunCli
  <2>1. CASE OpenSession \/ Profile \/ Require \/ Route \/ LoadTools
    BY <2>1, PlainSteps
  <2>2. CASE Create \/ Configure \/ StartCustody \/ RecordBaseline \/ RecordProfile
    BY <2>2, BodyRecords
  <2>3. CASE Raise
    BY <2>3, ThrowSteps DEF Raise
  <2>4. CASE AgentCompletes \/ AgentStops \/ AgentRaises
    BY <2>4, AgentEndsStep, AgentRaisesStep
  <2>5. CASE Handle \/ Close \/ CheckReleased \/ ReportUnreleased \/ StartFinal
             \/ VerifyCustody \/ ReportMismatch
    BY <2>5, HandleStep, CloseStep, CheckReleasedStep, ReportUnreleasedStep, StartFinalStep,
       VerifyCustodyStep, ReportMismatchStep
  <2>6. CASE Seal \/ RecordWrites \/ RecordCompletion \/ Sealed \/ ReportFinalization
    BY <2>6, SealStep, SealingRecords, SealedStep, ReportFinalizationStep
  <2>7. CASE WriteManifest \/ WriteChecksum \/ Verify \/ Escape
    BY <2>7, ManifestStep, ChecksumStep, VerifyStep, EscapeStep
  <2> QED BY <1>2, <2>1, <2>2, <2>3, <2>4, <2>5, <2>6, <2>7 DEF RunCli
<1>3. CASE Interrupt
  BY <1>3, ThrowSteps DEF Interrupt
<1>4. CASE Disturb \/ Kill
  BY <1>4, SurroundingSteps
<1>5. CASE Damage
  BY <1>5, DamageStep
<1>6. CASE Ended
  BY <1>6, Stutter DEF Ended
<1> QED BY <1>1, <1>2, <1>3, <1>4, <1>5, <1>6 DEF Next

LEMMA Inductive == Spec => []IInv
  BY Initially, NextKeeps, PTL DEF Spec

LEMMA AtMostOne ==
    ASSUME NEW S, \A r, s \in S : r = s
    PROVE  Cardinality(S) =< 1
<1>1. CASE S = {}
  <2>1. Cardinality(S) = 0
    BY <1>1, FS_EmptySet
  <2> QED BY <2>1
<1>2. CASE S # {}
  <2>1. PICK r : S = {r}
    BY <1>2
  <2>2. Cardinality(S) = 1
    BY <2>1, FS_Singleton
  <2> QED BY <2>2
<1> QED BY <1>1, <1>2

\* The types of run_cli's state, for any outputs, texts and number of faults.
THEOREM TypeCorrect == Spec => []TypeOK
<1>1. IInv => TypeOK
  <2> SUFFICES ASSUME IInv PROVE TypeOK
    OBVIOUS
  <2>1. Cardinality(profile) =< 1
    BY AtMostOne DEF IInv, Shaped
  <2>2. Cardinality(run) =< 1
    BY AtMostOne DEF IInv, Shaped
  <2>3. temporaries \subseteq DOMAIN [n \in Range(RootArtifacts) \cup
                                        {"manifest.json", "manifest.sha256"} |-> 0]
    BY WritesRoot DEF IInv, Shaped, Manifest, Detached
  <2>4. IsPrefix(written, ToWrite)
    <3>1. /\ written \in Seq(Names) /\ Len(written) \in Nat /\ Len(written) =< Len(ToWrite)
          /\ written = SubSeq(ToWrite, 1, Len(written))
      BY WrittenFits DEF IInv, InOrder
    <3>2. SubSeq(written, 1, Len(written)) = written
      BY <3>1, SubSeqFull
    <3> QED BY <3>1, <3>2 DEF IsPrefix
  <2>5. {evidence, baseline} \subseteq 0..MaxFaults /\ faults \in 0..MaxFaults
    BY LifecycleAssumption DEF IInv, Shaped
  <2> QED BY <2>1, <2>2, <2>3, <2>4, <2>5 DEF TypeOK, IInv, Shaped, ExitCode
<1> QED BY <1>1, Inductive, PTL

\* An exit code of 0, 2 or 3 is earned: by a bundle that verifies, evidence compared with
\* its baseline after the release, and a status that is the run's own.
THEOREM ExitEarned == Spec => []ExitIsEarned
<1>1. IInv => ExitIsEarned
  BY DEF IInv, Rested
<1> QED BY <1>1, Inductive, PTL

\* No bundle verifies that the run did not finish or that was changed afterwards.
THEOREM OnlySealed == Spec => []VerifiesOnlySealed
<1>1. IInv => VerifiesOnlySealed
  <2> SUFFICES ASSUME IInv, Verified(files, outputs, log, FALSE)
               PROVE  pc \in {"verify", "escape", "end"} /\ temporaries = {} /\ ~torn
    BY DEF VerifiesOnlySealed
  <2>1. Detached \in DOMAIN files
    BY VerifiedNeeds
  <2> QED BY <2>1 DEF IInv, Whole, AllThere
<1> QED BY <1>1, Inductive, PTL

-------------------------------------------------------------------------------
\* The second inductive invariant, KInv, of a run that is not FATAL. IInv says what is on
\* disk; KInv says of what: the log is in the order of Rank, holds what every check of the
\* verifier asks of it (Based), and from some place on is followed by the receipts of the
\* artifacts, which were made from the log before that place (Recorded). It also says what
\* the try body has recorded when it gets to the agent (OnCourse).

\* The order of the records of a run that is not FATAL; what comes after the final custody
\* check, and what only a FATAL run records, comes last.
Rank(e) ==
    CASE e = "run.created" -> 1
      [] e = "caps.configured" -> 2
      [] e = "custody.initial.started" -> 3
      [] e = "custody.initial.completed" -> 4
      [] e = "profile.completed" -> 5
      [] e = "investigation.started" -> 6
      [] e = "tool.started" -> 7
      [] e = "tool.completed" -> 8
      [] e = "investigator.finished" -> 9
      [] e = "judge.completed" -> 10
      [] e = "cap.fired" -> 11
      [] e = "investigation.completed" -> 12
      [] e = "run.preflight_failed" -> 13
      [] e = "custody.final.started" -> 14
      [] e = "custody.final.completed" -> 15
      [] OTHER -> 16

\* The rank of the last record before a place.
UpTo(place) ==
    CASE place = "created" -> 0
      [] place = "caps" -> 1
      [] place \in {"session", "started"} -> 2
      [] place \in {"profile", "required", "baseline"} -> 3
      [] place = "profiled" -> 4
      [] place \in {"route", "registry", "agent"} -> 5
      [] place = "handle" -> 8
      [] place \in {"close", "unmounted", "final"} -> 13
      [] place = "rehash" -> 14
      [] OTHER -> 15

ToolEvents == {"tool.started", "tool.completed"}
Bounded(s, r) == \A i \in DOMAIN s : Rank(s[i].event) =< r
Ordered(s) ==
    \A i, j \in DOMAIN s : i < j =>
        \/ Rank(s[i].event) < Rank(s[j].event)
        \/ s[i].event = s[j].event /\ s[i].event \in ToolEvents
OneEach(s) ==
    \A i, j \in DOMAIN s :
        s[i].event \in ToolEvents /\ s[i].event = s[j].event
        /\ s[i].payload.call = s[j].payload.call => i = j

\* Before the agent's end the place says what is on record.
Unprofiled == {"created", "caps", "session", "started", "profile"}
OnCourse ==
    /\ required => profile # {}
    /\ pc \in Body \cup {"created"} =>
        /\ Ordered(log) /\ Bounded(log, UpTo(pc)) /\ run = {}
        /\ profile = IF pc \in Unprofiled THEN {} ELSE {[hashes |-> baseline]}
        /\ Payloads(log, "custody.initial.completed") =
            IF pc \in {"profiled", "route", "registry", "agent"} THEN profile ELSE {}
        /\ Payloads(log, "profile.completed") =
            IF pc \in {"route", "registry", "agent"} THEN profile ELSE {}
        /\ pc # "created" => Payloads(log, "run.created") # {}
        /\ pc \notin {"created", "caps"} => Payloads(log, "caps.configured") # {}

\* What the records of a run that is not FATAL say before the artifacts are written.
Shares(finding) ==
    \E i, j \in DOMAIN finding.spans : i # j /\ finding.spans[i].id = finding.spans[j].id
Works(s) ==
    \/ \E f \in WorkOf(s).findings : Shares(f)
    \/ CitationsVerified(WorkOf(s), Receipts(outputs, s))
AgentEvents == {"run.created", "caps.configured", "investigation.started",
                "investigator.finished", "judge.completed", "investigation.completed"}
Completes(s) ==
    status = "COMPLETE" =>
        /\ \A e \in AgentEvents : Payloads(s, e) # {}
        /\ Payloads(s, "cap.fired") = {} /\ Payloads(s, "run.preflight_failed") = {}
        /\ \A p \in Payloads(s, "tool.completed") : p.status \notin {"capped", "rejected"}
Based(s) ==
    /\ IsLog(s) /\ Ordered(s) /\ OneEach(s)
    /\ CallsOf(s, "tool.started") = CallsOf(s, "tool.completed")
    /\ Payloads(s, "custody.initial.completed") = profile
    /\ Payloads(s, "profile.completed") = profile
    /\ Works(s) /\ Completes(s)

\* The artifacts and the records that follow.
ContentOver(s, name) ==
    LET summary == BuildSummary(s, status, CapName, released)
    IN  CASE name = "report.md" -> Report
          [] name = "profile.json" -> CHOOSE p \in profile : TRUE
          [] name = "environment.json" -> [environment |-> required]
          [] name = "summary.json" -> summary
          [] name = "viewer.html" -> RenderViewer(s, status, summary, Report)
Writes(k) == [i \in 1..k |-> Entry("artifact.written", [path |-> written[i]])]
Done == Entry("run.completed", [status |-> status, exit |-> ExitCode[status], cap |-> CapName,
                                released |-> released])
Follows(s) ==
    /\ pc \in {"handle", "close", "unmounted", "final", "rehash", "seal"} => log = s
    /\ pc = "receipts" => \E k \in 0..(Len(written) - 1) : log = s \o Writes(k)
    /\ pc = "complete" => log = s \o Writes(Len(written))
    /\ pc \in {"sealed", "manifest", "checksum", "verify"} =>
        log = s \o Writes(Len(written)) \o <<Done>>

Going == {"handle", "close", "unmounted", "final", "rehash"} \cup Sealing
         \cup {"manifest", "checksum", "verify"}
Recorded ==
    status # "FATAL" /\ pc \in Going =>
        /\ required <=> profile # {}
        /\ pc = "handle" => status # "COMPLETE" /\ failure \in {"cap.fired", "run.preflight_failed"}
        /\ pc \in {"receipts", "complete", "sealed", "manifest", "checksum", "verify"} =>
            written = ToWrite
        /\ \E s : /\ Based(s) /\ Bounded(s, UpTo(pc)) /\ Follows(s)
                            /\ \A n \in Range(written) : files[n] = ContentOver(s, n)

KInv == OnCourse /\ Recorded

-------------------------------------------------------------------------------
\* The order of the records.

LEMMA Ranks ==
    /\ Rank("run.created") = 1 /\ Rank("caps.configured") = 2
    /\ Rank("custody.initial.started") = 3 /\ Rank("custody.initial.completed") = 4
    /\ Rank("profile.completed") = 5 /\ Rank("investigation.started") = 6
    /\ Rank("tool.started") = 7 /\ Rank("tool.completed") = 8
    /\ Rank("investigator.finished") = 9 /\ Rank("judge.completed") = 10
    /\ Rank("cap.fired") = 11 /\ Rank("investigation.completed") = 12
    /\ Rank("run.preflight_failed") = 13 /\ Rank("custody.final.started") = 14
    /\ Rank("custody.final.completed") = 15 /\ Rank("artifact.written") = 16
    /\ Rank("run.completed") = 16 /\ Rank("run.failed") = 16 /\ Rank("run.interrupted") = 16
    /\ Rank("custody.mismatch") = 16 /\ Rank("mount.release_failed") = 16
    /\ Rank("bundle.finalization_failed") = 16
  BY DEF Rank

LEMMA RankType == \A e : Rank(e) \in 1..16
  BY DEF Rank

\* A sequence in two parts, place by place.
LEMMA Parts ==
    ASSUME NEW s, NEW t, IsLog(s), IsLog(t)
    PROVE  /\ Len(s) \in Nat /\ Len(t) \in Nat
           /\ DOMAIN s = 1..Len(s) /\ DOMAIN t = 1..Len(t)
           /\ DOMAIN (s \o t) = 1..(Len(s) + Len(t))
           /\ \A i \in 1..(Len(s) + Len(t)) :
                (s \o t)[i] = IF i =< Len(s) THEN s[i] ELSE t[i - Len(s)]
           /\ \A i \in 1..(Len(s) + Len(t)) : i > Len(s) => i - Len(s) \in 1..Len(t)
<1> DEFINE R == Range(s) \cup Range(t)
<1>1. s \in Seq(R) /\ t \in Seq(R)
  BY SeqMonotonic DEF IsLog
<1> HIDE DEF R
<1> QED BY <1>1, ConcatProperties, LenProperties

LEMMA BoundedJoined ==
    ASSUME NEW s, NEW t, IsLog(s), IsLog(t), NEW r, Bounded(s, r), Bounded(t, r)
    PROVE  Bounded(s \o t, r)
<1> DEFINE u == s \o t
<1>1. /\ DOMAIN u = 1..(Len(s) + Len(t)) /\ DOMAIN s = 1..Len(s) /\ DOMAIN t = 1..Len(t)
      /\ Len(s) \in Nat /\ Len(t) \in Nat
      /\ \A i \in 1..(Len(s) + Len(t)) : u[i] = IF i =< Len(s) THEN s[i] ELSE t[i - Len(s)]
      /\ \A i \in 1..(Len(s) + Len(t)) : i > Len(s) => i - Len(s) \in 1..Len(t)
  BY Parts
<1> HIDE DEF u
<1> SUFFICES ASSUME NEW i \in DOMAIN u PROVE Rank(u[i].event) =< r
  BY DEF Bounded, u
<1>2. CASE i =< Len(s)
  BY <1>1, <1>2 DEF Bounded
<1>3. CASE i > Len(s)
  BY <1>1, <1>3 DEF Bounded
<1> QED BY <1>1, <1>2, <1>3

LEMMA BoundedMore ==
    ASSUME NEW s, NEW r \in Int, NEW q \in Int, Bounded(s, r), r =< q
    PROVE  Bounded(s, q)
  BY RankType DEF Bounded

\* A part after which only records of a higher rank come.
LEMMA OrderedJoined ==
    ASSUME NEW s, NEW t, IsLog(s), IsLog(t), Ordered(s), Ordered(t),
           NEW r \in Int, Bounded(s, r), \A i \in DOMAIN t : Rank(t[i].event) > r
    PROVE  Ordered(s \o t)
<1> DEFINE u == s \o t
           m == Len(s)
           n == Len(t)
<1>1. /\ DOMAIN u = 1..(m + n) /\ DOMAIN s = 1..m /\ DOMAIN t = 1..n
      /\ m \in Nat /\ n \in Nat
      /\ \A i \in 1..(m + n) : u[i] = IF i =< m THEN s[i] ELSE t[i - m]
      /\ \A i \in 1..(m + n) : i > m => i - m \in 1..n
  BY Parts
<1> HIDE DEF u, m, n
<1> SUFFICES ASSUME NEW i \in DOMAIN u, NEW j \in DOMAIN u, i < j
             PROVE  \/ Rank(u[i].event) < Rank(u[j].event)
                    \/ u[i].event = u[j].event /\ u[i].event \in ToolEvents
  BY DEF Ordered, u
<1>2. CASE j =< m
  <2>1. u[i] = s[i] /\ u[j] = s[j] /\ i \in DOMAIN s /\ j \in DOMAIN s
    BY <1>1, <1>2
  <2> QED BY <2>1 DEF Ordered
<1>3. CASE i > m
  <2>1. /\ u[i] = t[i - m] /\ u[j] = t[j - m] /\ i - m \in DOMAIN t /\ j - m \in DOMAIN t
        /\ i - m < j - m
    BY <1>1, <1>3
  <2> QED BY <2>1 DEF Ordered
<1>4. CASE i =< m /\ j > m
  <2>1. u[i] = s[i] /\ u[j] = t[j - m] /\ i \in DOMAIN s /\ j - m \in DOMAIN t
    BY <1>1, <1>4
  <2>2. Rank(s[i].event) =< r /\ Rank(t[j - m].event) > r
    BY <2>1 DEF Bounded
  <2> QED BY <2>1, <2>2, RankType
<1> QED BY <1>1, <1>2, <1>3, <1>4

\* Parts that have no event of tools in common.
LEMMA OneEachJoined ==
    ASSUME NEW s, NEW t, IsLog(s), IsLog(t), OneEach(s), OneEach(t),
           \A i \in DOMAIN s, j \in DOMAIN t :
                s[i].event = t[j].event => s[i].event \notin ToolEvents
    PROVE  OneEach(s \o t)
<1> DEFINE u == s \o t
           m == Len(s)
           n == Len(t)
<1>1. /\ DOMAIN u = 1..(m + n) /\ DOMAIN s = 1..m /\ DOMAIN t = 1..n
      /\ m \in Nat /\ n \in Nat
      /\ \A i \in 1..(m + n) : u[i] = IF i =< m THEN s[i] ELSE t[i - m]
      /\ \A i \in 1..(m + n) : i > m => i - m \in 1..n
  BY Parts
<1> HIDE DEF u, m, n
<1> SUFFICES ASSUME NEW i \in DOMAIN u, NEW j \in DOMAIN u,
                    u[i].event \in ToolEvents, u[i].event = u[j].event,
                    u[i].payload.call = u[j].payload.call
             PROVE  i = j
  BY DEF OneEach, u
<1>2. CASE i =< m /\ j =< m
  <2>1. u[i] = s[i] /\ u[j] = s[j] /\ i \in DOMAIN s /\ j \in DOMAIN s
    BY <1>1, <1>2
  <2> QED BY <2>1 DEF OneEach
<1>3. CASE i > m /\ j > m
  <2>1. /\ u[i] = t[i - m] /\ u[j] = t[j - m] /\ i - m \in DOMAIN t /\ j - m \in DOMAIN t
    BY <1>1, <1>3
  <2>2. i - m = j - m
    BY <2>1 DEF OneEach
  <2> QED BY <1>1, <2>2
<1>4. CASE i =< m /\ j > m
  <2>1. u[i] = s[i] /\ u[j] = t[j - m] /\ i \in DOMAIN s /\ j - m \in DOMAIN t
    BY <1>1, <1>4
  <2> QED BY <2>1
<1>5. CASE i > m /\ j =< m
  <2>1. u[j] = s[j] /\ u[i] = t[i - m] /\ j \in DOMAIN s /\ i - m \in DOMAIN t
    BY <1>1, <1>5
  <2> QED BY <2>1
<1> QED BY <1>1, <1>2, <1>3, <1>4, <1>5

\* What is above the bound is not on record.
LEMMA NoneAbove ==
    ASSUME NEW s, NEW r \in Int, Bounded(s, r), NEW e, Rank(e) > r
    PROVE  Payloads(s, e) = {} /\ \A i \in DOMAIN s : s[i].event # e
  BY RankType DEF Bounded, Payloads, Indices

LEMMA OneInOrder ==
    ASSUME NEW e \in Events, NEW p
    PROVE  LET s == <<Entry(e, p)>>
           IN  /\ Ordered(s) /\ OneEach(s) /\ DOMAIN s = {1} /\ s[1].event = e
               /\ s[1].payload = p
<1> DEFINE s == <<Entry(e, p)>>
<1>1. DOMAIN s = {1} /\ s[1] = Entry(e, p)
  OBVIOUS
<1> HIDE DEF s
<1>2. s[1].event = e /\ s[1].payload = p
  BY <1>1, IsEntry
<1>3. Ordered(s) /\ OneEach(s)
  BY <1>1 DEF Ordered, OneEach
<1> QED BY <1>1, <1>2, <1>3 DEF s

\* One record more, of a higher rank than all before it.
LEMMA OneMore ==
    ASSUME NEW s, IsLog(s), Ordered(s), OneEach(s), NEW r \in Int, Bounded(s, r),
           NEW e \in Events \ ToolEvents, NEW p, Rank(e) > r
    PROVE  /\ IsLog(Append(s, Entry(e, p))) /\ Ordered(Append(s, Entry(e, p)))
           /\ OneEach(Append(s, Entry(e, p))) /\ Bounded(Append(s, Entry(e, p)), Rank(e))
           /\ \A d : Payloads(Append(s, Entry(e, p)), d) =
                        Payloads(s, d) \cup IF d = e THEN {p} ELSE {}
<1> DEFINE t == <<Entry(e, p)>>
<1>1. Append(s, Entry(e, p)) = s \o t
  <2>1. s \in Seq(Range(s) \cup {Entry(e, p)})
    BY SeqMonotonic DEF IsLog
  <2> QED BY <2>1, AppendIsConcat
<1>2. IsLog(t) /\ Ordered(t) /\ OneEach(t) /\ DOMAIN t = {1} /\ t[1].event = e
  BY OneEntry, OneInOrder
<1> HIDE DEF t
<1>3. Rank(e) \in Int /\ r =< Rank(e)
  BY RankType
<1>4. Bounded(s, Rank(e)) /\ Bounded(t, Rank(e))
  BY <1>2, <1>3, BoundedMore DEF Bounded
<1>5. \A i \in DOMAIN t : Rank(t[i].event) > r /\ t[i].event \notin ToolEvents
  BY <1>2
<1>6. Ordered(s \o t) /\ OneEach(s \o t) /\ Bounded(s \o t, Rank(e))
  BY <1>2, <1>4, <1>5, OrderedJoined, OneEachJoined, BoundedJoined
<1>9. e \in Events
  OBVIOUS
<1>7. IsLog(Append(s, Entry(e, p)))
  BY <1>9, Appended
<1>10. \A d : Payloads(Append(s, Entry(e, p)), d) =
                 Payloads(s, d) \cup IF d = e THEN {p} ELSE {}
  BY <1>9, Appended
<1>8. /\ Ordered(Append(s, Entry(e, p))) /\ OneEach(Append(s, Entry(e, p)))
      /\ Bounded(Append(s, Entry(e, p)), Rank(e))
  BY <1>1, <1>6, Zenon
<1> QED BY <1>7, <1>8, <1>10, Zenon

-------------------------------------------------------------------------------
\* Steps that record nothing of a run that goes on.

\* Where a run that is not FATAL no longer goes on, nothing is claimed.
LEMMA Off ==
    ASSUME KInv, UNCHANGED <<profile, required>>, pc' \notin Body \cup {"created"},
           status' = "FATAL" \/ pc' \notin Going
    PROVE  KInv'
<1>1. OnCourse'
  BY DEF KInv, OnCourse
<1>2. Recorded'
  BY DEF Recorded
<1> QED BY <1>1, <1>2 DEF KInv

LEMMA GoingPlaces ==
    /\ \A place \in Body \cup {"created", "finalize", "escape", "end", "damaged", "mismatched"} :
        place \notin Going
    /\ \A place \in Going : place \notin Body \cup {"created"}
  BY DEF Going, Body, Sealing

\* An exception that makes the run FATAL, or that none of the handlers takes.
LEMMA ThrownOff ==
    ASSUME KInv, NEW exception, Throw(exception), UNCHANGED <<profile, required>>,
           pc \notin Body \/ exception \in {"OSError", "KeyboardInterrupt"}
    PROVE  KInv'
<1>1. CASE pc \in Body
  <2>1. status' = "FATAL" /\ pc' = "handle"
    BY <1>1 DEF Throw, Handler
  <2> QED BY <2>1, Off DEF Body
<1>2. CASE pc \notin Body
  <2>1. pc' \in {"finalize", "escape"}
    BY <1>2 DEF Throw
  <2> QED BY <2>1, Off, GoingPlaces DEF Body
<1> QED BY <1>1, <1>2

LEMMA FailsOff ==
    ASSUME KInv, AppendFails \/ Interrupt \/ (pc \notin Body /\ Unencodable)
    PROVE  KInv'
<1>1. CASE AppendFails
  BY <1>1, ThrownOff DEF AppendFails, case
<1>2. CASE Interrupt
  BY <1>2, ThrownOff DEF Interrupt, case
<1>3. CASE pc \notin Body /\ Unencodable
  BY <1>3, ThrownOff DEF Unencodable, case
<1> QED BY <1>1, <1>2, <1>3

\* What the definitions look at.
LEMMA BasedKept ==
    ASSUME UNCHANGED <<outputs, profile, status>>, NEW s
    PROVE  Based(s)' <=> Based(s)
<1>1. Works(s)' <=> Works(s)
  BY DEF Works
<1>2. Completes(s)' <=> Completes(s)
  BY DEF Completes
<1> QED BY <1>1, <1>2 DEF Based

LEMMA ContentKept ==
    ASSUME UNCHANGED <<profile, status, run, required, released>>, NEW s, NEW n
    PROVE  ContentOver(s, n)' = ContentOver(s, n)
<1>1. CapName' = CapName /\ Report' = Report
  BY DEF CapName, Report
<1> QED BY <1>1 DEF ContentOver

LEMMA Kept ==
    ASSUME KInv, UNCHANGED <<pc, log, files, outputs, baseline, profile, required, released, run,
                            status, failure, written>>
    PROVE  KInv'
<1>1. OnCourse'
  BY DEF KInv, OnCourse
<1>2. ASSUME status' # "FATAL" /\ pc' \in Going
      PROVE  /\ required' <=> profile' # {}
             /\ pc' = "handle" =>
                 status' # "COMPLETE" /\ failure' \in {"cap.fired", "run.preflight_failed"}
             /\ pc' \in {"receipts", "complete", "sealed", "manifest", "checksum", "verify"} =>
                 written' = ToWrite'
             /\ \E s : /\ Based(s)' /\ Bounded(s, UpTo(pc')) /\ Follows(s)'
                       /\ \A n \in Range(written') : files'[n] = ContentOver(s, n)'
  <2>1. PICK s : /\ Based(s) /\ Bounded(s, UpTo(pc)) /\ Follows(s)
                 /\ \A n \in Range(written) : files[n] = ContentOver(s, n)
    BY <1>2 DEF KInv, Recorded
  <2>2. Based(s)'
    BY <2>1, BasedKept
  <2>3. Follows(s)'
    <3>1. Done' = Done /\ \A k : Writes(k)' = Writes(k)
      BY DEF Done, CapName, Writes
    <3> QED BY <2>1, <3>1 DEF Follows
  <2>4. \A n \in Range(written') : files'[n] = ContentOver(s, n)'
    BY <2>1, ContentKept
  <2>5. ToWrite' = ToWrite
    BY DEF ToWrite
  <2> QED BY <1>2, <2>1, <2>2, <2>3, <2>4, <2>5 DEF KInv, Recorded
<1>3. Recorded'
  BY <1>2 DEF Recorded
<1> QED BY <1>1, <1>3 DEF KInv

-------------------------------------------------------------------------------
\* The body of the try statement.

LEMMA BodyLog ==
    ASSUME IInv, KInv, pc \in Body \cup {"created"}
    PROVE  /\ IsLog(log) /\ Ordered(log) /\ OneEach(log)
           /\ UpTo(pc) \in 0..5 /\ Bounded(log, UpTo(pc)) /\ Bounded(log, 5)
           /\ \A i \in DOMAIN log : log[i].event \notin ToolEvents
<1>1. IsLog(log) /\ Ordered(log) /\ Bounded(log, UpTo(pc))
  BY DEF IInv, Shaped, KInv, OnCourse, Body
<1>2. UpTo(pc) \in 0..5
  BY DEF UpTo, Body
<1>3. Bounded(log, 5)
  BY <1>1, <1>2, BoundedMore
<1>4. \A i \in DOMAIN log : log[i].event \notin ToolEvents
  BY <1>3, NoneAbove, Ranks DEF ToolEvents
<1> QED BY <1>1, <1>2, <1>3, <1>4 DEF OneEach

LEMMA BodyAppends ==
    ASSUME IInv, KInv, pc \in Body \cup {"created"},
           NEW e \in Events \ ToolEvents, NEW p, log' = Append(log, Entry(e, p)),
           Rank(e) > UpTo(pc), UpTo(pc') = Rank(e)
    PROVE  /\ Ordered(log)' /\ Bounded(log', UpTo(pc'))
           /\ \A d : Payloads(log', d) = Payloads(log, d) \cup IF d = e THEN {p} ELSE {}
<1>1. IsLog(log) /\ Ordered(log) /\ OneEach(log) /\ Bounded(log, UpTo(pc)) /\ UpTo(pc) \in Int
  BY BodyLog
<1>2. /\ Ordered(Append(log, Entry(e, p))) /\ Bounded(Append(log, Entry(e, p)), Rank(e))
      /\ \A d : Payloads(Append(log, Entry(e, p)), d) =
                    Payloads(log, d) \cup IF d = e THEN {p} ELSE {}
  BY <1>1, OneMore
<1> QED BY <1>2

LEMMA BodyOnly ==
    ASSUME OnCourse', pc' \in Body
    PROVE  KInv'
  BY GoingPlaces DEF KInv, Recorded

\* The statements of the body that record nothing.
LEMMA PlainOnCourse ==
    ASSUME IInv, KInv, OpenSession \/ Profile \/ Require \/ Route \/ LoadTools
    PROVE  KInv'
<1>1. UNCHANGED <<log, run>> /\ pc \in Body /\ pc' \in Body
  BY DEF OpenSession, Profile, Require, Route, LoadTools, At, Goto, Body, bundle, case, result
<1>2. /\ Ordered(log) /\ Bounded(log, UpTo(pc)) /\ run = {} /\ (required => profile # {})
      /\ profile = IF pc \in Unprofiled THEN {} ELSE {[hashes |-> baseline]}
      /\ Payloads(log, "custody.initial.completed") =
            IF pc \in {"profiled", "route", "registry", "agent"} THEN profile ELSE {}
      /\ Payloads(log, "profile.completed") =
            IF pc \in {"route", "registry", "agent"} THEN profile ELSE {}
      /\ pc # "created" => Payloads(log, "run.created") # {}
      /\ pc \notin {"created", "caps"} => Payloads(log, "caps.configured") # {}
  BY <1>1 DEF KInv, OnCourse
<1>3. UpTo(pc') = UpTo(pc)
  BY DEF OpenSession, Profile, Require, Route, LoadTools, At, Goto, UpTo
<1>4. Bounded(log', UpTo(pc')) /\ Ordered(log')
  BY <1>1, <1>2, <1>3
<1>5. CASE OpenSession
  BY <1>1, <1>2, <1>4, <1>5, BodyOnly DEF OpenSession, At, Goto, OnCourse, Unprofiled
<1>6. CASE Profile
  <2>1. pc = "profile" /\ pc' = "required" /\ profile' = {[hashes |-> baseline']}
        /\ required' = required
    BY <1>6 DEF Profile, At, Goto
  <2> QED BY <1>1, <1>2, <1>4, <2>1, BodyOnly DEF OnCourse, Unprofiled
<1>7. CASE Require
  <2>1. pc = "required" /\ pc' = "baseline" /\ UNCHANGED <<profile, baseline>>
    BY <1>7 DEF Require, At, Goto
  <2>2. profile # {}
    BY <1>2, <2>1 DEF Unprofiled
  <2> QED BY <1>1, <1>2, <1>4, <2>1, <2>2, BodyOnly DEF OnCourse, Unprofiled
<1>8. CASE Route \/ LoadTools
  <2>1. /\ <<pc, pc'>> \in {<<"route", "registry">>, <<"registry", "agent">>}
        /\ UNCHANGED <<profile, baseline, required>>
    BY <1>8 DEF Route, LoadTools, At, Goto, case
  <2> QED BY <1>1, <1>2, <1>4, <2>1, BodyOnly DEF OnCourse, Unprofiled
<1> QED BY <1>5, <1>6, <1>7, <1>8

\* Those that record.
LEMMA RecordOnCourse ==
    ASSUME IInv, KInv, Create \/ Configure \/ StartCustody \/ RecordBaseline \/ RecordProfile
    PROVE  KInv'
<1>1. CASE AppendFails
  BY <1>1, FailsOff
<1>2. CASE ~AppendFails
  <2>1. PICK e, p, next :
        /\ e \in Events \ ToolEvents /\ Rank(e) > UpTo(pc) /\ UpTo(next) = Rank(e)
        /\ pc \in Body \cup {"created"} /\ Record(e, p, next)
        /\ <<pc, next, e>> \in {<<"created", "caps", "run.created">>,
                <<"caps", "session", "caps.configured">>,
                <<"started", "profile", "custody.initial.started">>,
                <<"baseline", "profiled", "custody.initial.completed">>,
                <<"profiled", "route", "profile.completed">>}
        /\ e = "custody.initial.completed" => p = [hashes |-> baseline]
        /\ e = "profile.completed" => p \in profile
    <3>1. CASE Create
      BY <3>1, Ranks DEF Create, At, Events, ToolEvents, Body, UpTo
    <3>2. CASE Configure
      BY <3>2, Ranks DEF Configure, At, Events, ToolEvents, Body, UpTo
    <3>3. CASE StartCustody
      BY <3>3, Ranks DEF StartCustody, At, Events, ToolEvents, Body, UpTo
    <3>4. CASE RecordBaseline
      BY <3>4, Ranks DEF RecordBaseline, At, Events, ToolEvents, Body, UpTo
    <3>5. CASE RecordProfile
      BY <3>5, Ranks DEF RecordProfile, At, Events, ToolEvents, Body, UpTo
    <3> QED BY <3>1, <3>2, <3>3, <3>4, <3>5
  <2>2. /\ log' = Append(log, Entry(e, p)) /\ pc' = next /\ pc' \in Body
        /\ UNCHANGED <<case, result>>
    BY <1>2, <2>1 DEF Record, Goto, Body
  <2>3. /\ run = {} /\ (required => profile # {})
        /\ profile = IF pc \in Unprofiled THEN {} ELSE {[hashes |-> baseline]}
        /\ Payloads(log, "custody.initial.completed") =
            IF pc \in {"profiled", "route", "registry", "agent"} THEN profile ELSE {}
        /\ Payloads(log, "profile.completed") =
            IF pc \in {"route", "registry", "agent"} THEN profile ELSE {}
        /\ pc # "created" => Payloads(log, "run.created") # {}
        /\ pc \notin {"created", "caps"} => Payloads(log, "caps.configured") # {}
    BY <2>1 DEF KInv, OnCourse
  <2>4. /\ Ordered(log') /\ Bounded(log', UpTo(pc'))
        /\ \A d : Payloads(log', d) = Payloads(log, d) \cup IF d = e THEN {p} ELSE {}
    BY <2>1, <2>2, BodyAppends
  <2>5. /\ Payloads(log', "custody.initial.completed") =
            Payloads(log, "custody.initial.completed")
                \cup IF "custody.initial.completed" = e THEN {p} ELSE {}
        /\ Payloads(log', "profile.completed") =
            Payloads(log, "profile.completed") \cup IF "profile.completed" = e THEN {p} ELSE {}
        /\ Payloads(log', "run.created") =
            Payloads(log, "run.created") \cup IF "run.created" = e THEN {p} ELSE {}
        /\ Payloads(log', "caps.configured") =
            Payloads(log, "caps.configured") \cup IF "caps.configured" = e THEN {p} ELSE {}
    BY <2>4
  <2>6. UNCHANGED <<run, required, profile, baseline>>
    BY <2>2 DEF case, result
  <2>7. /\ profile' = IF pc' \in Unprofiled THEN {} ELSE {[hashes |-> baseline']}
        /\ (pc' # "created" => Payloads(log', "run.created") # {})
        /\ (pc' \notin {"created", "caps"} => Payloads(log', "caps.configured") # {})
    BY <2>1, <2>2, <2>3, <2>5, <2>6 DEF Unprofiled
  <2>8. /\ Payloads(log', "custody.initial.completed") =
            IF pc' \in {"profiled", "route", "registry", "agent"} THEN profile' ELSE {}
        /\ Payloads(log', "profile.completed") =
            IF pc' \in {"route", "registry", "agent"} THEN profile' ELSE {}
    BY <2>1, <2>2, <2>3, <2>5, <2>6 DEF Unprofiled
  <2>9. OnCourse'
    BY <2>2, <2>3, <2>4, <2>6, <2>7, <2>8 DEF OnCourse
  <2> QED BY <2>2, <2>9, BodyOnly
<1> QED BY <1>1, <1>2

\* What a run that goes on needs.
LEMMA GoesOn ==
    ASSUME UNCHANGED <<profile, required>>, required => profile # {}, pc' \in Going,
           required <=> profile # {},
           pc' = "handle" =>
                status' # "COMPLETE" /\ failure' \in {"cap.fired", "run.preflight_failed"},
           pc' \in {"receipts", "complete", "sealed", "manifest", "checksum", "verify"} =>
                written' = ToWrite',
           NEW s, Based(s)', Bounded(s, UpTo(pc')), Follows(s)',
           \A n \in Range(written') : files'[n] = ContentOver(s, n)'
    PROVE  KInv'
<1>1. OnCourse'
  BY GoingPlaces DEF OnCourse
<1>2. Recorded'
  BY DEF Recorded
<1> QED BY <1>1, <1>2 DEF KInv

LEMMA NoWork ==
    ASSUME NEW s, Payloads(s, "investigator.finished") = {},
           Payloads(s, "judge.completed") = {}
    PROVE  \A receipts : CitationsVerified(WorkOf(s), receipts)
<1>1. WorkOf(s).findings = {} /\ WorkOf(s).verdicts = {}
  BY DEF WorkOf
<1> QED BY <1>1 DEF CitationsVerified

\* An exception of the body whose handler does not make the run FATAL.
LEMMA ThrownOn ==
    ASSUME IInv, KInv,
           pc \in {"caps", "session", "profile", "route", "registry", "agent"},
           pc' = "handle", status' \in {"PARTIAL", "INVALID"},
           failure' \in {"cap.fired", "run.preflight_failed"}, UNCHANGED <<case, written>>,
           NEW s, log' = s, IsLog(s), Ordered(s), OneEach(s), Bounded(s, 8),
           CallsOf(s, "tool.started") = CallsOf(s, "tool.completed"),
           \A e \in {"custody.initial.completed", "profile.completed"} :
                Payloads(s, e) = Payloads(log, e)
    PROVE  KInv'
<1>1. UNCHANGED <<profile, required>>
  BY DEF case
<1>2. /\ required => profile # {}
      /\ profile = IF pc \in Unprofiled THEN {} ELSE {[hashes |-> baseline]}
      /\ Payloads(log, "custody.initial.completed") =
            IF pc \in {"profiled", "route", "registry", "agent"} THEN profile ELSE {}
      /\ Payloads(log, "profile.completed") =
            IF pc \in {"route", "registry", "agent"} THEN profile ELSE {}
  BY DEF KInv, OnCourse, Body
<1>3. required <=> profile # {}
  BY <1>2 DEF Unprofiled, IInv, Rested
<1>4. /\ Payloads(s, "custody.initial.completed") = profile'
      /\ Payloads(s, "profile.completed") = profile'
  BY <1>1, <1>2 DEF Unprofiled
<1>5. Works(s)'
  <2>1. /\ Payloads(s, "investigator.finished") = {}
        /\ Payloads(s, "judge.completed") = {}
    BY NoneAbove, Ranks
  <2>2. \A receipts : CitationsVerified(WorkOf(s), receipts)
    BY <2>1, NoWork
  <2> QED BY <2>2 DEF Works
<1>6. Completes(s)'
  BY DEF Completes
<1>7. Based(s)'
  BY <1>4, <1>5, <1>6 DEF Based
<1>8. written' = <<>> /\ Range(written') = {}
  <2>1. written' = <<>>
    BY DEF IInv, OnDisk, Early, Body
  <2> QED BY <2>1, EmptySeq DEF Range
<1>9. Follows(s)' /\ UpTo(pc') = 8 /\ pc' \in Going
  BY DEF Follows, UpTo, Going
<1> QED BY <1>1, <1>2, <1>3, <1>7, <1>8, <1>9, GoesOn

LEMMA RaiseOn == ASSUME IInv, KInv, Raise PROVE KInv'
<1>1. PICK exception \in Raised(pc) : Throw(exception)
  BY DEF Raise
<1>2. UNCHANGED <<bundle, case, written>>
  BY DEF Raise
<1>3. /\ pc \in {"caps", "session", "profile", "route", "registry"}
      /\ exception \in {"ValueError", "CapExceeded", "CustodyError",
                        "EvidenceDiscoveryError", "EvidenceError", "OSError"}
  BY <1>1 DEF Raised
<1>4. /\ status' = Handler(exception)[1] /\ failure' = Handler(exception)[2]
      /\ pc' = "handle"
  BY <1>1, <1>3 DEF Throw, Body
<1>5. CASE exception \in {"CustodyError", "EvidenceError", "OSError"}
  <2>1. status' = "FATAL"
    BY <1>4, <1>5 DEF Handler
  <2> QED BY <1>2, <1>4, <2>1, Off DEF Body, case
<1>6. CASE exception \in {"ValueError", "CapExceeded", "EvidenceDiscoveryError"}
  <2>1. status' \in {"PARTIAL", "INVALID"}
        /\ failure' \in {"cap.fired", "run.preflight_failed"}
    BY <1>4, <1>6 DEF Handler
  <2>2. PICK s : s = log'
    OBVIOUS
  <2>3. s = log
    BY <1>2, <2>2 DEF bundle
  <2>4. /\ IsLog(log) /\ Ordered(log) /\ OneEach(log) /\ Bounded(log, 5)
    BY <1>3, BodyLog DEF Body
  <2>5. Bounded(log, 8)
    BY <2>4, BoundedMore
  <2>6. CallsOf(log, "tool.started") = CallsOf(log, "tool.completed")
    <3>1. Payloads(log, "tool.started") = {} /\ Payloads(log, "tool.completed") = {}
      BY <2>4, NoneAbove, Ranks
    <3> QED BY <3>1 DEF CallsOf
  <2> QED BY <1>2, <1>3, <1>4, <2>1, <2>2, <2>3, <2>4, <2>5, <2>6, ThrownOn
<1> QED BY <1>3, <1>5, <1>6

\* A stretch of the log in its order, with records of these ranks only.
Stretch(s, a, c) ==
    /\ IsLog(s) /\ Ordered(s) /\ OneEach(s)
    /\ \A i \in DOMAIN s : a < Rank(s[i].event) /\ Rank(s[i].event) =< c

LEMMA StretchJoined ==
    ASSUME NEW s, NEW t, NEW a \in Int, NEW b \in Int, NEW c \in Int, a =< b, b =< c,
           Stretch(s, a, b), Stretch(t, b, c)
    PROVE  /\ Stretch(s \o t, a, c)
           /\ \A e : Payloads(s \o t, e) = Payloads(s, e) \cup Payloads(t, e)
<1> DEFINE u == s \o t
<1>1. /\ IsLog(s) /\ Ordered(s) /\ OneEach(s) /\ IsLog(t) /\ Ordered(t) /\ OneEach(t)
      /\ \A i \in DOMAIN s : a < Rank(s[i].event) /\ Rank(s[i].event) =< b
      /\ \A i \in DOMAIN t : b < Rank(t[i].event) /\ Rank(t[i].event) =< c
  BY DEF Stretch
<1>2. Ordered(u)
  BY <1>1, OrderedJoined DEF Bounded
<1>3. OneEach(u)
  <2>1. \A i \in DOMAIN s, j \in DOMAIN t : s[i].event # t[j].event
    BY <1>1, RankType
  <2> QED BY <1>1, <2>1, OneEachJoined
<1>4. /\ DOMAIN u = 1..(Len(s) + Len(t)) /\ DOMAIN s = 1..Len(s) /\ DOMAIN t = 1..Len(t)
      /\ Len(s) \in Nat /\ Len(t) \in Nat
      /\ \A i \in 1..(Len(s) + Len(t)) : u[i] = IF i =< Len(s) THEN s[i] ELSE t[i - Len(s)]
      /\ \A i \in 1..(Len(s) + Len(t)) : i > Len(s) => i - Len(s) \in 1..Len(t)
  BY <1>1, Parts
<1>5. /\ IsLog(u) /\ \A e : Payloads(u, e) = Payloads(s, e) \cup Payloads(t, e)
  BY <1>1, Joined
<1> HIDE DEF u
<1>6. ASSUME NEW i \in DOMAIN u PROVE a < Rank(u[i].event) /\ Rank(u[i].event) =< c
  <2>1. CASE i =< Len(s)
    <3>1. u[i] = s[i] /\ i \in DOMAIN s
      BY <1>4, <2>1
    <3> QED BY <1>1, <3>1, RankType
  <2>2. CASE i > Len(s)
    <3>1. u[i] = t[i - Len(s)] /\ i - Len(s) \in DOMAIN t
      BY <1>4, <2>2
    <3> QED BY <1>1, <3>1, RankType
  <2> QED BY <1>4, <2>1, <2>2
<1> QED BY <1>2, <1>3, <1>5, <1>6 DEF Stretch, u

LEMMA StretchNone == ASSUME NEW a, NEW c PROVE Stretch(<<>>, a, c)
<1>1. DOMAIN <<>> = {}
  BY EmptySeq
<1> QED BY <1>1, NoEntry DEF Stretch, Ordered, OneEach

LEMMA StretchOne ==
    ASSUME NEW e \in Events, NEW p, NEW a, NEW c, a < Rank(e), Rank(e) =< c
    PROVE  Stretch(<<Entry(e, p)>>, a, c)
<1> DEFINE s == <<Entry(e, p)>>
<1>1. IsLog(s) /\ Ordered(s) /\ OneEach(s) /\ DOMAIN s = {1} /\ s[1].event = e
  BY OneEntry, OneInOrder
<1> HIDE DEF s
<1> QED BY <1>1 DEF Stretch, s

LEMMA StretchSame ==
    ASSUME NEW n \in Nat, NEW e, NEW f, NEW s, OfEvent(s, n, e, f),
           NEW a, NEW c, a < Rank(e), Rank(e) =< c,
           n =< 1 \/ (e \in ToolEvents /\ \A i, j \in 1..n : f[i].call = f[j].call => i = j)
    PROVE  Stretch(s, a, c)
<1>1. IsLog(s)
  BY SameEvent
<1>2. DOMAIN s = 1..n /\ \A i \in 1..n : s[i] = Entry(e, f[i])
  BY DEF OfEvent
<1>3. \A i \in 1..n : s[i].event = e /\ s[i].payload = f[i]
  BY <1>2, IsEntry
<1>4. Ordered(s) /\ OneEach(s)
  <2>1. CASE n =< 1
    <3>1. \A i, j \in 1..n : i = j /\ ~(i < j)
      BY <2>1
    <3> QED BY <1>2, <3>1 DEF Ordered, OneEach
  <2>2. CASE e \in ToolEvents /\ \A i, j \in 1..n : f[i].call = f[j].call => i = j
    BY <1>2, <1>3, <2>2 DEF Ordered, OneEach
  <2> QED BY <2>1, <2>2
<1> QED BY <1>1, <1>2, <1>3, <1>4 DEF Stretch

LEMMA StretchOutside ==
    ASSUME NEW s, NEW a \in Int, NEW c \in Int, Stretch(s, a, c), NEW e,
           Rank(e) =< a \/ Rank(e) > c
    PROVE  Payloads(s, e) = {}
<1>1. \A i \in DOMAIN s : s[i].event # e
  BY RankType DEF Stretch
<1> QED BY <1>1 DEF Payloads, Indices

LEMMA ListingOnce ==
    ASSUME NEW S, IsFiniteSet(S)
    PROVE  \A i, j \in 1..Cardinality(S) : SetToSeq(S)[i] = SetToSeq(S)[j] => i = j
<1> DEFINE n == Cardinality(S)
           I == 1..n
<1>1. ExistsBijection(I, S)
  BY FS_CardinalityType
<1>2. \E g \in [I -> S] : IsInjective(g)
  BY <1>1, Zenon DEF ExistsBijection, Bijection, Injection, IsInjective
<1> DEFINE f == SetToSeq(S)
<1>3. f \in [I -> S] /\ IsInjective(f)
  BY <1>2 DEF SetToSeq
<1> HIDE DEF f
<1>4. \A i, j \in I : f[i] = f[j] => i = j
  BY <1>3, Zenon DEF IsInjective
<1> QED BY <1>4 DEF f

\* The records of a batch.
LEMMA BatchStretch ==
    ASSUME NEW receipts, IsFiniteSet(DOMAIN receipts)
    PROVE  Stretch(BatchLog(receipts), 6, 8)
<1> DEFINE C == DOMAIN receipts
           calls == SetToSeq(C)
           n == Cardinality(C)
           f == [i \in 1..n |-> [call |-> calls[i]]]
           g == [i \in 1..n |-> Receipt(calls[i], receipts)]
           s == [i \in 1..n |-> Entry("tool.started", f[i])]
           t == [i \in 1..n |-> Entry("tool.completed", g[i])]
<1>1. /\ n \in Nat /\ calls \in [1..n -> C]
      /\ \A i, j \in 1..n : calls[i] = calls[j] => i = j
  BY Listing, ListingOnce
<1>2. DOMAIN calls = 1..n
  BY <1>1
<1> HIDE DEF calls, n
<1>3. BatchLog(receipts) = s \o t
  <2>1. [i \in DOMAIN calls |-> Started(calls[i])] = s
    BY <1>2 DEF Started
  <2>2. [i \in DOMAIN calls |-> Completed(calls[i], receipts)] = t
    BY <1>2 DEF Completed, Receipt
  <2> QED BY <2>1, <2>2 DEF BatchLog, calls
<1>4. "tool.started" \in Events /\ "tool.completed" \in Events
  BY DEF Events
<1>5. \A i \in 1..n : f[i].call = calls[i] /\ g[i].call = calls[i]
  BY DEF Receipt
<1>6. OfEvent(s, n, "tool.started", f) /\ OfEvent(t, n, "tool.completed", g)
  BY <1>1, <1>4 DEF Range, OfEvent
<1> HIDE DEF f, g, s, t
<1>7. \A i, j \in 1..n : /\ f[i].call = f[j].call => i = j
                         /\ g[i].call = g[j].call => i = j
  BY <1>1, <1>5
<1>8. Stretch(s, 6, 7)
  BY <1>1, <1>6, <1>7, Ranks, StretchSame DEF ToolEvents
<1>9. Stretch(t, 7, 8)
  BY <1>1, <1>6, <1>7, Ranks, StretchSame DEF ToolEvents
<1>10. Stretch(s \o t, 6, 8)
  BY <1>8, <1>9, StretchJoined
<1> QED BY <1>3, <1>10

\* The log when agent.run has returned.
AgentLog(l, before, receipts, findings, verdicts, ended, caps) ==
    /\ Stretch(l, 0, 12)
    /\ \A e : Rank(e) =< 5 => Payloads(l, e) = Payloads(before, e)
    /\ Payloads(l, "investigation.started") # {} /\ Payloads(l, "investigation.completed") # {}
    /\ Payloads(l, "tool.started") = {[call |-> c] : c \in DOMAIN receipts}
    /\ Payloads(l, "tool.completed") = {Receipt(c, receipts) : c \in DOMAIN receipts}
    /\ Payloads(l, "investigator.finished") =
        IF findings = {} /\ ended = "PARTIAL" THEN {} ELSE {findings}
    /\ Payloads(l, "judge.completed") =
        IF verdicts = {} /\ ended = "PARTIAL" THEN {} ELSE {verdicts}
    /\ caps = {} => Payloads(l, "cap.fired") = {}

LEMMA AgentRecords ==
    ASSUME Stretch(log, 0, 5),
           NEW receipts, IsFiniteSet(DOMAIN receipts),
           NEW findings, NEW verdicts, NEW ended, NEW caps \in SUBSET {"cap"},
           AgentEnds(receipts, findings, verdicts, ended, caps)
    PROVE  AgentLog(log', log, receipts, findings, verdicts, ended, caps)
<1> DEFINE first == <<Entry("investigation.started", NoPayload)>>
           batch == BatchLog(receipts)
           found == IF findings = {} /\ ended = "PARTIAL" THEN <<>>
                    ELSE <<Entry("investigator.finished", findings)>>
           judged == IF verdicts = {} /\ ended = "PARTIAL" THEN <<>>
                     ELSE <<Entry("judge.completed", verdicts)>>
           fired == [i \in 1..Cardinality(caps) |-> Entry("cap.fired", NoPayload)]
           last == <<Entry("investigation.completed", NoPayload)>>
<1>1. log' = log \o first \o batch \o found \o judged \o fired \o last
  BY DEF AgentEnds
<1>2. /\ "investigation.started" \in Events /\ "investigator.finished" \in Events
      /\ "judge.completed" \in Events /\ "cap.fired" \in Events
      /\ "investigation.completed" \in Events
  BY DEF Events
<1>3. /\ Stretch(first, 5, 6)
      /\ \A d : Payloads(first, d) = IF d = "investigation.started" THEN {NoPayload} ELSE {}
  <2>1. Stretch(first, 5, 6)
    BY <1>2, Ranks, StretchOne
  <2>2. \A d : Payloads(first, d) = IF d = "investigation.started" THEN {NoPayload} ELSE {}
    BY <1>2, OneEntry
  <2> QED BY <2>1, <2>2
<1>4. /\ Stretch(batch, 6, 8)
      /\ Payloads(batch, "tool.started") = {[call |-> c] : c \in DOMAIN receipts}
      /\ Payloads(batch, "tool.completed") = {Receipt(c, receipts) : c \in DOMAIN receipts}
  BY BatchStretch, BatchRecords DEF BatchFits
<1>5. /\ Stretch(found, 8, 9)
      /\ Payloads(found, "investigator.finished") =
            IF findings = {} /\ ended = "PARTIAL" THEN {} ELSE {findings}
  <2>1. CASE findings = {} /\ ended = "PARTIAL"
    BY <2>1, StretchNone, NoEntry
  <2>2. CASE ~(findings = {} /\ ended = "PARTIAL")
    <3>1. Stretch(<<Entry("investigator.finished", findings)>>, 8, 9)
      BY <1>2, Ranks, StretchOne
    <3>2. Payloads(<<Entry("investigator.finished", findings)>>, "investigator.finished") =
            {findings}
      BY <1>2, OneEntry
    <3> QED BY <2>2, <3>1, <3>2
  <2> QED BY <2>1, <2>2
<1>6. /\ Stretch(judged, 9, 10)
      /\ Payloads(judged, "judge.completed") =
            IF verdicts = {} /\ ended = "PARTIAL" THEN {} ELSE {verdicts}
  <2>1. CASE verdicts = {} /\ ended = "PARTIAL"
    BY <2>1, StretchNone, NoEntry
  <2>2. CASE ~(verdicts = {} /\ ended = "PARTIAL")
    <3>1. Stretch(<<Entry("judge.completed", verdicts)>>, 9, 10)
      BY <1>2, Ranks, StretchOne
    <3>2. Payloads(<<Entry("judge.completed", verdicts)>>, "judge.completed") = {verdicts}
      BY <1>2, OneEntry
    <3> QED BY <2>2, <3>1, <3>2
  <2> QED BY <2>1, <2>2
<1>7. /\ Stretch(fired, 10, 11)
      /\ caps = {} => Payloads(fired, "cap.fired") = {}
  <2> DEFINE n == Cardinality(caps)
             f == [i \in 1..n |-> NoPayload]
             s == [i \in 1..n |-> Entry("cap.fired", f[i])]
  <2>1. n \in Nat /\ n =< 1 /\ (caps = {} => n = 0)
    <3>1. IsFiniteSet({"cap"}) /\ Cardinality({"cap"}) = 1
      BY FS_Singleton
    <3>2. IsFiniteSet(caps) /\ Cardinality(caps) =< Cardinality({"cap"})
      BY <3>1, FS_Subset
    <3>3. Cardinality(caps) \in Nat /\ (caps = {} => Cardinality(caps) = 0)
      BY <3>2, FS_CardinalityType, FS_EmptySet
    <3> QED BY <3>1, <3>2, <3>3
  <2>2. fired = s
    OBVIOUS
  <2> HIDE DEF n
  <2>3. OfEvent(s, n, "cap.fired", f)
    BY <1>2, <2>1 DEF Range, OfEvent
  <2> HIDE DEF f, s, fired
  <2>4. Stretch(s, 10, 11)
    BY <2>1, <2>3, Ranks, StretchSame
  <2>5. Payloads(s, "cap.fired") = Values(f, n)
    BY <2>3, SameEvent
  <2>6. n = 0 => Values(f, n) = {}
    BY DEF Values
  <2> QED BY <2>1, <2>2, <2>4, <2>5, <2>6
<1>8. /\ Stretch(last, 11, 12)
      /\ Payloads(last, "investigation.completed") = {NoPayload}
  <2>1. Stretch(last, 11, 12)
    BY <1>2, Ranks, StretchOne
  <2>2. Payloads(last, "investigation.completed") = {NoPayload}
    BY <1>2, OneEntry
  <2> QED BY <2>1, <2>2
<1> HIDE DEF first, batch, found, judged, fired, last
<1> DEFINE t == log \o first
           u == t \o batch
           v == u \o found
           w == v \o judged
           x == w \o fired
           y == x \o last
<1>10. Stretch(t, 0, 6) /\ \A e : Payloads(t, e) = Payloads(log, e) \cup Payloads(first, e)
  <2>1. Stretch(t, 0, 6)
    BY <1>3, StretchJoined
  <2>2. \A e : Payloads(t, e) = Payloads(log, e) \cup Payloads(first, e)
    BY <1>3, Joined DEF Stretch
  <2> QED BY <2>1, <2>2
<1> HIDE DEF t
<1>11. Stretch(u, 0, 8) /\ \A e : Payloads(u, e) = Payloads(t, e) \cup Payloads(batch, e)
  <2>1. Stretch(u, 0, 8)
    BY <1>4, <1>10, StretchJoined
  <2>2. \A e : Payloads(u, e) = Payloads(t, e) \cup Payloads(batch, e)
    BY <1>4, <1>10, Joined DEF Stretch
  <2> QED BY <2>1, <2>2
<1> HIDE DEF u
<1>12. Stretch(v, 0, 9) /\ \A e : Payloads(v, e) = Payloads(u, e) \cup Payloads(found, e)
  <2>1. Stretch(v, 0, 9)
    BY <1>5, <1>11, StretchJoined
  <2>2. \A e : Payloads(v, e) = Payloads(u, e) \cup Payloads(found, e)
    BY <1>5, <1>11, Joined DEF Stretch
  <2> QED BY <2>1, <2>2
<1> HIDE DEF v
<1>13. Stretch(w, 0, 10) /\ \A e : Payloads(w, e) = Payloads(v, e) \cup Payloads(judged, e)
  <2>1. Stretch(w, 0, 10)
    BY <1>6, <1>12, StretchJoined
  <2>2. \A e : Payloads(w, e) = Payloads(v, e) \cup Payloads(judged, e)
    BY <1>6, <1>12, Joined DEF Stretch
  <2> QED BY <2>1, <2>2
<1> HIDE DEF w
<1>14. Stretch(x, 0, 11) /\ \A e : Payloads(x, e) = Payloads(w, e) \cup Payloads(fired, e)
  <2>1. Stretch(x, 0, 11)
    BY <1>7, <1>13, StretchJoined
  <2>2. \A e : Payloads(x, e) = Payloads(w, e) \cup Payloads(fired, e)
    BY <1>7, <1>13, Joined DEF Stretch
  <2> QED BY <2>1, <2>2
<1> HIDE DEF x
<1>15. Stretch(y, 0, 12) /\ \A e : Payloads(y, e) = Payloads(x, e) \cup Payloads(last, e)
  <2>1. Stretch(y, 0, 12)
    BY <1>8, <1>14, StretchJoined
  <2>2. \A e : Payloads(y, e) = Payloads(x, e) \cup Payloads(last, e)
    BY <1>8, <1>14, Joined DEF Stretch
  <2> QED BY <2>1, <2>2
<1> HIDE DEF y
<1>16. log' = y
  BY <1>1 DEF t, u, v, w, x, y
<1>17. \A e : Payloads(y, e) = Payloads(log, e) \cup Payloads(first, e) \cup Payloads(batch, e)
                \cup Payloads(found, e) \cup Payloads(judged, e) \cup Payloads(fired, e)
                \cup Payloads(last, e)
  BY <1>10, <1>11, <1>12, <1>13, <1>14, <1>15
<1>18. \A e : /\ Rank(e) > 5 => Payloads(log, e) = {}
              /\ Rank(e) =< 6 \/ Rank(e) > 8 => Payloads(batch, e) = {}
              /\ Rank(e) =< 8 \/ Rank(e) > 9 => Payloads(found, e) = {}
              /\ Rank(e) =< 9 \/ Rank(e) > 10 => Payloads(judged, e) = {}
              /\ Rank(e) =< 10 \/ Rank(e) > 11 => Payloads(fired, e) = {}
              /\ Rank(e) =< 11 \/ Rank(e) > 12 => Payloads(last, e) = {}
              /\ Rank(e) =< 5 \/ Rank(e) > 6 => Payloads(first, e) = {}
  BY <1>3, <1>4, <1>5, <1>6, <1>7, <1>8, StretchOutside
<1>19. \A e : Rank(e) =< 5 => Payloads(y, e) = Payloads(log, e)
  BY <1>17, <1>18, RankType
<1>20. Payloads(y, "investigation.started") # {} /\ Payloads(y, "investigation.completed") # {}
  <2>1. NoPayload \in Payloads(first, "investigation.started")
    BY <1>3
  <2>2. NoPayload \in Payloads(last, "investigation.completed")
    BY <1>8
  <2> QED BY <1>17, <2>1, <2>2
<1>21. ASSUME NEW e, Rank(e) \in {7, 8} PROVE Payloads(y, e) = Payloads(batch, e)
  BY <1>17, <1>18, <1>21
<1>22. ASSUME NEW e, Rank(e) = 9 PROVE Payloads(y, e) = Payloads(found, e)
  BY <1>17, <1>18, <1>22
<1>23. ASSUME NEW e, Rank(e) = 10 PROVE Payloads(y, e) = Payloads(judged, e)
  BY <1>17, <1>18, <1>23
<1>24. ASSUME NEW e, Rank(e) = 11 PROVE Payloads(y, e) = Payloads(fired, e)
  BY <1>17, <1>18, <1>24
<1>25. /\ Payloads(y, "tool.started") = Payloads(batch, "tool.started")
       /\ Payloads(y, "tool.completed") = Payloads(batch, "tool.completed")
       /\ Payloads(y, "investigator.finished") = Payloads(found, "investigator.finished")
       /\ Payloads(y, "judge.completed") = Payloads(judged, "judge.completed")
       /\ Payloads(y, "cap.fired") = Payloads(fired, "cap.fired")
  BY <1>21, <1>22, <1>23, <1>24, Ranks
<1>26. /\ Stretch(log', 0, 12)
       /\ \A e : Rank(e) =< 5 => Payloads(log', e) = Payloads(log, e)
       /\ Payloads(log', "investigation.started") # {}
       /\ Payloads(log', "investigation.completed") # {}
  BY <1>15, <1>16, <1>19, <1>20
<1>27. /\ Payloads(log', "tool.started") = {[call |-> c] : c \in DOMAIN receipts}
       /\ Payloads(log', "tool.completed") = {Receipt(c, receipts) : c \in DOMAIN receipts}
       /\ Payloads(log', "investigator.finished") =
            IF findings = {} /\ ended = "PARTIAL" THEN {} ELSE {findings}
       /\ Payloads(log', "judge.completed") =
            IF verdicts = {} /\ ended = "PARTIAL" THEN {} ELSE {verdicts}
       /\ caps = {} => Payloads(log', "cap.fired") = {}
  BY <1>4, <1>5, <1>6, <1>7, <1>16, <1>25
<1> QED BY <1>26, <1>27 DEF AgentLog

\* The verifier reads the receipts that the agent had.
LEMMA AgentReceipts ==
    ASSUME NEW S, NEW receipts \in ReceiptsOver(S), NEW l,
           Payloads(l, "tool.started") = {[call |-> c] : c \in DOMAIN receipts},
           Payloads(l, "tool.completed") = {Receipt(c, receipts) : c \in DOMAIN receipts}
    PROVE  /\ CallsOf(l, "tool.started") = CallsOf(l, "tool.completed")
           /\ Receipts(Retained(receipts), l) = receipts
<1>1. DOMAIN receipts = Calls /\ receipts = [c \in Calls |-> receipts[c]]
      /\ \A c \in Calls : receipts[c] \in [status : S, output : Outputs]
  BY DEF ReceiptsOver
<1>2. \A c : Receipt(c, receipts).call = c /\ Receipt(c, receipts).status = receipts[c].status
             /\ Receipt(c, receipts).output = receipts[c].output
  BY DEF Receipt
<1>3. CallsOf(l, "tool.started") = Calls
  <2>1. \A c : [call |-> c].call = c
    OBVIOUS
  <2>2. ASSUME NEW x \in CallsOf(l, "tool.started") PROVE x \in Calls
    BY <1>1, <2>1 DEF CallsOf
  <2>3. ASSUME NEW x \in Calls PROVE x \in CallsOf(l, "tool.started")
    <3>1. [call |-> x] \in Payloads(l, "tool.started")
      BY <1>1
    <3> QED BY <2>1, <3>1 DEF CallsOf
  <2> QED BY <2>2, <2>3
<1>4. CallsOf(l, "tool.completed") = Calls
  <2>1. ASSUME NEW x \in CallsOf(l, "tool.completed") PROVE x \in Calls
    BY <1>1, <1>2 DEF CallsOf
  <2>2. ASSUME NEW x \in Calls PROVE x \in CallsOf(l, "tool.completed")
    <3>1. Receipt(x, receipts) \in Payloads(l, "tool.completed")
      BY <1>1
    <3> QED BY <1>2, <3>1 DEF CallsOf
  <2> QED BY <2>1, <2>2
<1>5. ASSUME NEW c \in Calls
      PROVE  LET p == CHOOSE q \in Payloads(l, "tool.completed") : q.call = c
             IN  [status |-> p.status, output |-> Retained(receipts)[p.output]] = receipts[c]
  <2> DEFINE P == Payloads(l, "tool.completed")
             p == CHOOSE q \in P : q.call = c
  <2>1. Receipt(c, receipts) \in P /\ \A q \in P : q.call = c => q = Receipt(c, receipts)
    BY <1>1, <1>2
  <2>2. p = Receipt(c, receipts)
    <3>1. \E q \in P : q.call = c
      BY <1>2, <2>1
    <3>2. p \in P /\ p.call = c
      <4> HIDE DEF P
      <4> QED BY <3>1
    <3> QED BY <2>1, <3>2
  <2>3. Retained(receipts)[receipts[c].output] = receipts[c].output
    BY <1>1 DEF Retained
  <2>4. receipts[c] = [status |-> receipts[c].status, output |-> receipts[c].output]
    BY <1>1
  <2> HIDE DEF p
  <2>5. [status |-> p.status, output |-> Retained(receipts)[p.output]] = receipts[c]
    BY <1>2, <2>2, <2>3, <2>4
  <2> QED BY <2>5 DEF p
<1>6. Receipts(Retained(receipts), l) = [c \in Calls |-> receipts[c]]
  BY <1>4, <1>5 DEF Receipts
<1> QED BY <1>1, <1>3, <1>4, <1>6

\* Outputs and texts are sequences of bytes.
Byte == 0..255

\* The finding, if there is one, was accepted for quotes of the calls.
LEMMA FindingFrom ==
    ASSUME NEW S, NEW receipts \in ReceiptsOver(S), NEW f \in Findings(receipts)
    PROVE  \E quotes \in QuotesOf(Byte) :
                /\ FindingAccepted(f.status, f.cites, quotes, receipts)
                /\ f = [status |-> f.status, cites |-> f.cites,
                        spans |-> Resolved(quotes, receipts)]
<1> DEFINE Q == SeqOf([call : DOMAIN receipts, text : Texts], MaxQuotes)
<1>1. PICK g \in Statuses \X (SUBSET DOMAIN receipts) \X Q :
        /\ FindingAccepted(g[1], g[2], g[3], receipts)
        /\ f = [status |-> g[1], cites |-> g[2], spans |-> Resolved(g[3], receipts)]
  BY DEF Findings
<1>2. g[3] \in Q
  OBVIOUS
<1>3. PICK m \in 0..MaxQuotes : g[3] \in [1..m -> [call : DOMAIN receipts, text : Texts]]
  BY <1>2 DEF SeqOf
<1>4. DOMAIN receipts = Calls /\ m \in Nat
  BY <1>3, CitationsAssumption DEF ReceiptsOver
<1>5. [call : Calls, text : Texts] \subseteq [call : Calls, text : Seq(Byte)]
  BY LifecycleAssumption DEF Byte
<1>6. g[3] \in [1..m -> [call : Calls, text : Seq(Byte)]]
  BY <1>3, <1>4, <1>5
<1>7. g[3] \in QuotesOf(Byte)
  <2> DEFINE R == [call : Calls, text : Seq(Byte)]
  <2>1. g[3] \in [1..m -> R]
    BY <1>6
  <2> HIDE DEF R
  <2>2. g[3] \in Seq(R)
    BY <1>4, <2>1
  <2> QED BY <2>2 DEF QuotesOf, R
<1>8. f.status = g[1] /\ f.cites = g[2]
  BY <1>1
<1> QED BY <1>1, <1>7, <1>8

\* What a run may submit, over the receipts of its calls.
LEMMA SubmittedWorks ==
    ASSUME NEW S, NEW receipts \in ReceiptsOver(S), NEW findings, NEW verdicts,
           \/ findings = {} /\ verdicts = {}
           \/ \E f \in Findings(receipts) :
                /\ findings = {f}
                /\ verdicts = {} \/ \E v \in Verdicts(f, receipts) : verdicts = {v}
    PROVE  \/ \E f \in findings : Shares(f)
           \/ CitationsVerified([findings |-> findings, verdicts |-> verdicts], receipts)
<1>1. CASE findings = {} /\ verdicts = {}
  BY <1>1 DEF CitationsVerified
<1>2. ASSUME NEW f \in Findings(receipts), findings = {f},
             verdicts = {} \/ \E v \in Verdicts(f, receipts) : verdicts = {v}
      PROVE  Shares(f)
             \/ CitationsVerified([findings |-> findings, verdicts |-> verdicts], receipts)
  <2>1. PICK quotes \in QuotesOf(Byte) :
          /\ FindingAccepted(f.status, f.cites, quotes, receipts)
          /\ f = [status |-> f.status, cites |-> f.cites, spans |-> Resolved(quotes, receipts)]
    BY <1>2, FindingFrom
  <2>2. SUFFICES ASSUME ~Shares(f)
                 PROVE  CitationsVerified([findings |-> findings, verdicts |-> verdicts],
                                          receipts)
    OBVIOUS
  <2>3. DistinctIds(Resolved(quotes, receipts))
    <3>1. f.spans = Resolved(quotes, receipts)
      BY <2>1
    <3> QED BY <2>2, <3>1 DEF Shares, DistinctIds
  <2>4. OutputsOver(Byte, receipts)
    BY LifecycleAssumption DEF ReceiptsOver, OutputsOver, Byte
  <2>5. CASE verdicts = {}
    BY <1>2, <2>1, <2>3, <2>4, <2>5, FindingVerifies
  <2>6. ASSUME NEW v \in Verdicts(f, receipts), verdicts = {v}
        PROVE  CitationsVerified([findings |-> findings, verdicts |-> verdicts], receipts)
    <3> DEFINE ids == {f.spans[i].id : i \in DOMAIN f.spans}
               Q == [id : ids, call : f.cites, text : Texts]
    <3>1. /\ v \in [status : {s \in Statuses : s = "CONFIRMED" => f.status = s},
                    cites : SUBSET f.cites, quotes : SeqOf(Q, 1)]
          /\ VerdictAccepted(v.status, v.cites, v.quotes, f, receipts)
      BY <2>6 DEF Verdicts
    <3>2. PICK m \in 0..1 : v.quotes \in [1..m -> Q]
      BY <3>1 DEF SeqOf
    <3>3. \A i \in DOMAIN v.quotes : v.quotes[i].text \in Seq(Byte)
      BY <3>2, LifecycleAssumption DEF Byte
    <3>4. v.status = "CONFIRMED" => f.status = "CONFIRMED"
      BY <3>1
    <3> HIDE DEF ids, Q
    <3> QED BY <1>2, <2>1, <2>3, <2>4, <2>6, <3>1, <3>3, <3>4, AcceptedVerifies
  <2> QED BY <1>2, <2>5, <2>6
<1> QED BY <1>1, <1>2

\* The records of the body are those of a log in its order.
LEMMA BodyStretch == ASSUME IInv, KInv, pc \in Body \cup {"created"} PROVE Stretch(log, 0, 5)
<1>1. IsLog(log) /\ Ordered(log) /\ OneEach(log) /\ Bounded(log, 5)
  BY BodyLog
<1> QED BY <1>1, RankType DEF Stretch, Bounded

LEMMA AgentEndsOn ==
    ASSUME IInv, KInv, pc = "agent", NEW S, NEW receipts \in ReceiptsOver(S),
           NEW findings, NEW verdicts, NEW ended \in {"COMPLETE", "PARTIAL"},
           NEW caps \in SUBSET {"cap"}, AgentEnds(receipts, findings, verdicts, ended, caps),
           \/ \E f \in findings : Shares(f)
           \/ CitationsVerified([findings |-> findings, verdicts |-> verdicts], receipts),
           ended = "COMPLETE" => caps = {} /\ S \cap {"capped", "rejected"} = {}
    PROVE  KInv'
<1>1. PICK l : l = log'
  OBVIOUS
<1>2. /\ outputs' = Retained(receipts) /\ status' = ended /\ pc' = "close"
      /\ UNCHANGED <<case, written>>
  BY DEF AgentEnds, Goto
<1>3. /\ IsFiniteSet(DOMAIN receipts)
      /\ \A c \in DOMAIN receipts : receipts[c].status \in S
  BY LifecycleAssumption DEF ReceiptsOver
<1>4. AgentLog(l, log, receipts, findings, verdicts, ended, caps)
  BY <1>1, <1>3, BodyStretch, AgentRecords DEF Body
<1>5. /\ IsLog(l) /\ Ordered(l) /\ OneEach(l) /\ Bounded(l, 12) /\ Bounded(l, 13)
  <2>1. Stretch(l, 0, 12)
    BY <1>4 DEF AgentLog
  <2>2. IsLog(l) /\ Ordered(l) /\ OneEach(l) /\ Bounded(l, 12)
    BY <2>1 DEF Stretch, Bounded
  <2> QED BY <2>2, BoundedMore
<1>6. /\ Payloads(l, "tool.started") = {[call |-> c] : c \in DOMAIN receipts}
      /\ Payloads(l, "tool.completed") = {Receipt(c, receipts) : c \in DOMAIN receipts}
  BY <1>4 DEF AgentLog
<1>7. /\ CallsOf(l, "tool.started") = CallsOf(l, "tool.completed")
      /\ Receipts(Retained(receipts), l) = receipts
  BY <1>6, AgentReceipts
<1>8. /\ Payloads(l, "investigator.finished") =
            IF findings = {} /\ ended = "PARTIAL" THEN {} ELSE {findings}
      /\ Payloads(l, "judge.completed") =
            IF verdicts = {} /\ ended = "PARTIAL" THEN {} ELSE {verdicts}
      /\ Payloads(l, "investigation.started") # {}
      /\ Payloads(l, "investigation.completed") # {}
      /\ caps = {} => Payloads(l, "cap.fired") = {}
  BY <1>4 DEF AgentLog
<1>9. \A e : Rank(e) =< 5 => Payloads(l, e) = Payloads(log, e)
  BY <1>4 DEF AgentLog
<1>10. /\ Payloads(l, "run.created") = Payloads(log, "run.created")
       /\ Payloads(l, "caps.configured") = Payloads(log, "caps.configured")
       /\ Payloads(l, "custody.initial.completed") = Payloads(log, "custody.initial.completed")
       /\ Payloads(l, "profile.completed") = Payloads(log, "profile.completed")
  BY <1>9, Ranks
<1>11. /\ Payloads(log, "run.created") # {} /\ Payloads(log, "caps.configured") # {}
       /\ Payloads(log, "custody.initial.completed") = profile
       /\ Payloads(log, "profile.completed") = profile /\ profile # {}
  BY DEF KInv, OnCourse, Body, Unprofiled
<1>12. UNCHANGED <<profile, required>> /\ required
  BY <1>2 DEF case, IInv, Rested
<1>13. WorkOf(l) = [findings |-> findings, verdicts |-> verdicts]
  <2>1. UNION Payloads(l, "investigator.finished") = findings
    BY <1>8
  <2>2. UNION Payloads(l, "judge.completed") = verdicts
    BY <1>8
  <2> QED BY <2>1, <2>2 DEF WorkOf
<1>14. Works(l)'
  <2>1. \/ \E f \in WorkOf(l).findings : Shares(f)
        \/ CitationsVerified(WorkOf(l), Receipts(outputs', l))
    BY <1>2, <1>7, <1>13
  <2> QED BY <2>1 DEF Works
<1>15. Completes(l)'
  <2>1. SUFFICES ASSUME ended = "COMPLETE"
                 PROVE  /\ \A e \in AgentEvents : Payloads(l, e) # {}
                        /\ Payloads(l, "cap.fired") = {}
                        /\ Payloads(l, "run.preflight_failed") = {}
                        /\ \A p \in Payloads(l, "tool.completed") :
                                p.status \notin {"capped", "rejected"}
    BY <1>2 DEF Completes
  <2>2. /\ Payloads(l, "investigator.finished") # {} /\ Payloads(l, "judge.completed") # {}
    BY <1>8, <2>1
  <2>3. \A e \in AgentEvents : Payloads(l, e) # {}
    BY <1>8, <1>10, <1>11, <2>2 DEF AgentEvents
  <2>4. Payloads(l, "cap.fired") = {}
    BY <1>8, <2>1
  <2>5. Payloads(l, "run.preflight_failed") = {}
    BY <1>5, NoneAbove, Ranks
  <2>6. ASSUME NEW p \in Payloads(l, "tool.completed")
        PROVE  p.status \notin {"capped", "rejected"}
    <3>1. PICK c \in DOMAIN receipts : p = Receipt(c, receipts)
      BY <1>6, <2>6
    <3>2. p.status = receipts[c].status
      BY <3>1 DEF Receipt
    <3> QED BY <1>3, <2>1, <3>1, <3>2
  <2> QED BY <2>3, <2>4, <2>5, <2>6
<1>16. Based(l)'
  BY <1>5, <1>7, <1>10, <1>11, <1>12, <1>14, <1>15 DEF Based
<1>17. written' = <<>> /\ Range(written') = {}
  <2>1. written' = <<>>
    BY <1>2 DEF IInv, OnDisk, Early, Body
  <2> QED BY <2>1, EmptySeq DEF Range
<1>18. Follows(l)' /\ UpTo(pc') = 13 /\ pc' \in Going
  BY <1>1, <1>2 DEF Follows, UpTo, Going
<1> QED BY <1>2, <1>5, <1>11, <1>12, <1>16, <1>17, <1>18, GoesOn

LEMMA AgentEndsSteps == ASSUME IInv, KInv, AgentCompletes \/ AgentStops PROVE KInv'
<1>1. CASE AgentCompletes
  <2> DEFINE S == {"success", "error"}
  <2>1. pc = "agent" /\ S \cap {"capped", "rejected"} = {}
    BY <1>1 DEF AgentCompletes, At
  <2>2. PICK receipts \in ReceiptsOver(S) :
          \/ AgentEnds(receipts, {}, {}, "COMPLETE", {})
          \/ \E f \in Findings(receipts) : \E v \in Verdicts(f, receipts) :
                AgentEnds(receipts, {f}, {v}, "COMPLETE", {})
    BY <1>1 DEF AgentCompletes
  <2> HIDE DEF S
  <2>3. PICK findings, verdicts :
          /\ AgentEnds(receipts, findings, verdicts, "COMPLETE", {})
          /\ \/ findings = {} /\ verdicts = {}
             \/ \E f \in Findings(receipts) :
                /\ findings = {f}
                /\ verdicts = {} \/ \E v \in Verdicts(f, receipts) : verdicts = {v}
    BY <2>2
  <2>4. \/ \E f \in findings : Shares(f)
        \/ CitationsVerified([findings |-> findings, verdicts |-> verdicts], receipts)
    BY <2>2, <2>3, SubmittedWorks
  <2> QED BY <2>1, <2>2, <2>3, <2>4, AgentEndsOn
<1>2. CASE AgentStops
  <2> DEFINE S == {"success", "capped"}
  <2>1. pc = "agent"
    BY <1>2 DEF AgentStops, At
  <2>2. PICK receipts \in ReceiptsOver(S), caps \in SUBSET {"cap"} :
          \/ AgentEnds(receipts, {}, {}, "PARTIAL", caps)
          \/ \E f \in Findings(receipts) : AgentEnds(receipts, {f}, {}, "PARTIAL", caps)
    BY <1>2 DEF AgentStops
  <2> HIDE DEF S
  <2>3. PICK findings, verdicts :
          /\ AgentEnds(receipts, findings, verdicts, "PARTIAL", caps)
          /\ \/ findings = {} /\ verdicts = {}
             \/ \E f \in Findings(receipts) :
                /\ findings = {f}
                /\ verdicts = {} \/ \E v \in Verdicts(f, receipts) : verdicts = {v}
    BY <2>2
  <2>4. \/ \E f \in findings : Shares(f)
        \/ CitationsVerified([findings |-> findings, verdicts |-> verdicts], receipts)
    BY <2>2, <2>3, SubmittedWorks
  <2> QED BY <2>1, <2>2, <2>3, <2>4, AgentEndsOn
<1> QED BY <1>1, <1>2

LEMMA AgentRaisesOn == ASSUME IInv, KInv, AgentRaises PROVE KInv'
<1>1. pc = "agent" /\ UNCHANGED <<case, written>>
  BY DEF AgentRaises, At
<1>2. PICK exception \in {"ValueError", "OSError", "KeyboardInterrupt"}, c \in Calls,
           output \in Outputs :
        LET receipts == [d \in {c} |-> [status |-> "success", output |-> output]]
            batch == BatchLog(receipts)
        IN  /\ \E n \in (IF exception = "ValueError" THEN {0, Len(batch)} ELSE 0..Len(batch)) :
                log' = log \o <<Entry("investigation.started", NoPayload)>>
                           \o SubSeq(batch, 1, n)
            /\ Throw(exception)
  BY DEF AgentRaises
<1>3. CASE exception \in {"OSError", "KeyboardInterrupt"}
  BY <1>1, <1>2, <1>3, ThrownOff DEF case
<1>4. CASE exception = "ValueError"
  <2> DEFINE receipts == [d \in {c} |-> [status |-> "success", output |-> output]]
             batch == BatchLog(receipts)
             first == <<Entry("investigation.started", NoPayload)>>
  <2>1. PICK n \in {0, Len(batch)} : log' = log \o first \o SubSeq(batch, 1, n)
    BY <1>2, <1>4
  <2>2. status' = "INVALID" /\ failure' = "run.preflight_failed" /\ pc' = "handle"
    BY <1>1, <1>2, <1>4 DEF Throw, Handler, Body
  <2>3. DOMAIN receipts = {c} /\ IsFiniteSet(DOMAIN receipts)
    BY FS_Singleton
  <2>4. Stretch(batch, 6, 8) /\ BatchFits(batch, receipts)
    BY <2>3, BatchStretch, BatchRecords
  <2>5. /\ IsLog(batch)
        /\ CallsOf(batch, "tool.started") = CallsOf(batch, "tool.completed")
    <3>1. /\ IsLog(batch)
          /\ Payloads(batch, "tool.started") = {[call |-> c]}
          /\ Payloads(batch, "tool.completed") = {Receipt(c, receipts)}
      <4> HIDE DEF batch
      <4> QED BY <2>3, <2>4 DEF BatchFits
    <3>2. [call |-> c].call = c /\ Receipt(c, receipts).call = c
      BY DEF Receipt
    <3> HIDE DEF batch
    <3>3. CallsOf(batch, "tool.started") = {c}
      BY <3>1, <3>2 DEF CallsOf
    <3>4. CallsOf(batch, "tool.completed") = {c}
      BY <3>1, <3>2 DEF CallsOf
    <3> QED BY <3>1, <3>3, <3>4
  <2> HIDE DEF batch
  <2> DEFINE part == SubSeq(batch, 1, n)
  <2>6. /\ Stretch(part, 6, 8)
        /\ CallsOf(part, "tool.started") = CallsOf(part, "tool.completed")
    <3>1. CASE n = 0
      <4>1. part = <<>>
        BY <3>1, SubSeqEmpty
      <4> HIDE DEF part
      <4>2. Payloads(part, "tool.started") = {} /\ Payloads(part, "tool.completed") = {}
        BY <4>1, NoEntry
      <4>3. CallsOf(part, "tool.started") = CallsOf(part, "tool.completed")
        BY <4>2 DEF CallsOf
      <4>4. Stretch(part, 6, 8)
        BY <4>1, StretchNone
      <4> QED BY <4>3, <4>4
    <3>2. CASE n = Len(batch)
      <4>1. part = batch
        BY <2>5, <3>2, SubSeqFull DEF IsLog
      <4> QED BY <2>4, <2>5, <4>1
    <3> QED BY <2>1, <3>1, <3>2
  <2> HIDE DEF part
  <2>7. Stretch(log, 0, 5)
    BY <1>1, BodyStretch DEF Body
  <2>8. Stretch(first, 5, 6) /\ \A d \in ToolEvents : Payloads(first, d) = {}
    <3>1. "investigation.started" \in Events
      BY DEF Events
    <3>2. Stretch(first, 5, 6)
      BY <3>1, Ranks, StretchOne
    <3>3. \A d : Payloads(first, d) = IF d = "investigation.started" THEN {NoPayload} ELSE {}
      BY <3>1, OneEntry
    <3> QED BY <3>2, <3>3 DEF ToolEvents
  <2> HIDE DEF first
  <2> DEFINE t == log \o first
             u == t \o part
  <2>9. Stretch(t, 0, 6)
    BY <2>7, <2>8, StretchJoined
  <2>10. \A e : Payloads(t, e) = Payloads(log, e) \cup Payloads(first, e)
    BY <2>7, <2>8, Joined DEF Stretch
  <2> HIDE DEF t
  <2>11. Stretch(u, 0, 8)
    BY <2>6, <2>9, StretchJoined
  <2>12. \A e : Payloads(u, e) = Payloads(t, e) \cup Payloads(part, e)
    BY <2>6, <2>9, Joined DEF Stretch
  <2> HIDE DEF u
  <2>13. \A e : /\ Rank(e) > 6 => Payloads(t, e) = {}
                /\ Rank(e) =< 5 => Payloads(first, e) = {}
                /\ Rank(e) =< 6 => Payloads(part, e) = {}
    BY <2>6, <2>8, <2>9, StretchOutside
  <2>14. /\ Payloads(u, "tool.started") = Payloads(part, "tool.started")
         /\ Payloads(u, "tool.completed") = Payloads(part, "tool.completed")
         /\ Payloads(u, "custody.initial.completed") = Payloads(log, "custody.initial.completed")
         /\ Payloads(u, "profile.completed") = Payloads(log, "profile.completed")
    <3>1. ASSUME NEW e, Rank(e) > 6 PROVE Payloads(u, e) = Payloads(part, e)
      BY <2>12, <2>13, <3>1
    <3>2. ASSUME NEW e, Rank(e) =< 5 PROVE Payloads(u, e) = Payloads(log, e)
      <4>1. Payloads(first, e) = {} /\ Payloads(part, e) = {}
        BY <2>13, <3>2, RankType
      <4> QED BY <2>10, <2>12, <4>1
    <3> QED BY <3>1, <3>2, Ranks
  <2>15. CallsOf(u, "tool.started") = CallsOf(u, "tool.completed")
    BY <2>6, <2>14 DEF CallsOf
  <2>16. PICK s : s = u
    OBVIOUS
  <2>17. log' = s
    BY <2>1, <2>16 DEF u, t, part
  <2>18. IsLog(s) /\ Ordered(s) /\ OneEach(s) /\ Bounded(s, 8)
    BY <2>11, <2>16 DEF Stretch, Bounded
  <2>19. CallsOf(s, "tool.started") = CallsOf(s, "tool.completed")
    BY <2>15, <2>16
  <2>20. \A e \in {"custody.initial.completed", "profile.completed"} :
            Payloads(s, e) = Payloads(log, e)
    BY <2>14, <2>16
  <2> QED BY <1>1, <2>2, <2>17, <2>18, <2>19, <2>20, ThrownOn
<1> QED BY <1>3, <1>4

LastEvents == {"cap.fired", "run.preflight_failed", "custody.final.started",
               "custody.final.completed"}

\* What looks at some records only.
LEMMA SameWork ==
    ASSUME NEW s, NEW t, Works(s),
           \A e \in {"tool.completed", "investigator.finished", "judge.completed"} :
                Payloads(t, e) = Payloads(s, e)
    PROVE  Works(t)
<1>1. WorkOf(t) = WorkOf(s)
  BY DEF WorkOf
<1>2. Receipts(outputs, t) = Receipts(outputs, s)
  BY DEF Receipts, CallsOf
<1> QED BY <1>1, <1>2 DEF Works

\* One record more after the agent.
LEMMA BasedMore ==
    ASSUME NEW s, Based(s), NEW r \in Int, Bounded(s, r), NEW e \in LastEvents, NEW p,
           Rank(e) > r, status = "COMPLETE" => e \notin {"cap.fired", "run.preflight_failed"}
    PROVE  Based(Append(s, Entry(e, p))) /\ Bounded(Append(s, Entry(e, p)), Rank(e))
<1> DEFINE t == Append(s, Entry(e, p))
<1>1. e \in Events \ ToolEvents
  BY DEF LastEvents, Events, ToolEvents
<1>2. /\ IsLog(s) /\ Ordered(s) /\ OneEach(s)
      /\ CallsOf(s, "tool.started") = CallsOf(s, "tool.completed")
      /\ Payloads(s, "custody.initial.completed") = profile
      /\ Payloads(s, "profile.completed") = profile /\ Works(s) /\ Completes(s)
  BY DEF Based
<1>3. /\ IsLog(t) /\ Ordered(t) /\ OneEach(t) /\ Bounded(t, Rank(e))
      /\ \A d : Payloads(t, d) = Payloads(s, d) \cup IF d = e THEN {p} ELSE {}
  BY <1>1, <1>2, OneMore
<1> HIDE DEF t
<1>4. \A d : d # e => Payloads(t, d) = Payloads(s, d)
  BY <1>3
<1>5. /\ Payloads(t, "tool.started") = Payloads(s, "tool.started")
      /\ Payloads(t, "tool.completed") = Payloads(s, "tool.completed")
      /\ Payloads(t, "custody.initial.completed") = Payloads(s, "custody.initial.completed")
      /\ Payloads(t, "profile.completed") = Payloads(s, "profile.completed")
      /\ Payloads(t, "investigator.finished") = Payloads(s, "investigator.finished")
      /\ Payloads(t, "judge.completed") = Payloads(s, "judge.completed")
  BY <1>4 DEF LastEvents
<1>6. CallsOf(t, "tool.started") = CallsOf(t, "tool.completed")
  BY <1>2, <1>5 DEF CallsOf
<1>7. Works(t)
  BY <1>2, <1>5, SameWork
<1>8. Completes(t)
  <2>1. SUFFICES ASSUME status = "COMPLETE"
                 PROVE  /\ \A d \in AgentEvents : Payloads(t, d) # {}
                        /\ Payloads(t, "cap.fired") = {}
                        /\ Payloads(t, "run.preflight_failed") = {}
                        /\ \A q \in Payloads(t, "tool.completed") :
                                q.status \notin {"capped", "rejected"}
    BY DEF Completes
  <2>2. /\ \A d \in AgentEvents : Payloads(s, d) # {}
        /\ Payloads(s, "cap.fired") = {} /\ Payloads(s, "run.preflight_failed") = {}
        /\ \A q \in Payloads(s, "tool.completed") : q.status \notin {"capped", "rejected"}
    BY <1>2, <2>1 DEF Completes
  <2>3. \A d \in AgentEvents : Payloads(t, d) # {}
    BY <1>3, <2>2
  <2>4. Payloads(t, "cap.fired") = {} /\ Payloads(t, "run.preflight_failed") = {}
    BY <1>4, <2>1, <2>2
  <2> QED BY <1>5, <2>2, <2>3, <2>4
<1>9. Based(t)
  BY <1>2, <1>3, <1>5, <1>6, <1>7, <1>8 DEF Based
<1> QED BY <1>3, <1>9 DEF t

\* Between the agent and the sealing.
Between == {"handle", "close", "unmounted", "final", "rehash"}

LEMMA BetweenBase ==
    ASSUME IInv, KInv, pc \in Between, status # "FATAL"
    PROVE  /\ required <=> profile # {}
           /\ Based(log) /\ Bounded(log, UpTo(pc)) /\ UpTo(pc) \in {8, 13, 14}
           /\ written = <<>> /\ Range(written) = {}
<1>1. PICK s : Based(s) /\ Bounded(s, UpTo(pc)) /\ Follows(s)
  BY DEF KInv, Recorded, Between, Going
<1>2. log = s
  BY <1>1 DEF Follows, Between
<1>3. written = <<>>
  BY DEF IInv, OnDisk, Between, Early
<1>4. Range(written) = {}
  BY <1>3, EmptySeq DEF Range
<1>5. UpTo(pc) \in {8, 13, 14}
  BY DEF UpTo, Between
<1> QED BY <1>1, <1>2, <1>3, <1>4, <1>5 DEF KInv, Recorded, Between, Going

LEMMA BetweenSilent ==
    ASSUME IInv, KInv, pc \in Between, pc' \in {"unmounted", "final", "seal"},
           UNCHANGED <<log, outputs, profile, required, status, written>>,
           UpTo(pc) =< UpTo(pc')
    PROVE  KInv'
<1>1. CASE status = "FATAL"
  BY <1>1, Off DEF Body
<1>2. CASE status # "FATAL"
  <2>1. PICK s : s = log'
    OBVIOUS
  <2>2. /\ required <=> profile # {}
        /\ Based(s) /\ Bounded(s, UpTo(pc)) /\ UpTo(pc) \in {8, 13, 14}
        /\ Range(written) = {}
    BY <1>2, <2>1, BetweenBase
  <2>3. UpTo(pc') \in {13, 15}
    BY DEF UpTo
  <2>4. Bounded(s, UpTo(pc'))
    BY <2>2, <2>3, BoundedMore
  <2>5. Based(s)'
    BY <2>2, BasedKept
  <2>6. Follows(s)' /\ pc' \in Going
    BY <2>1 DEF Follows, Going, Sealing
  <2>7. required => profile # {}
    BY <2>2
  <2> QED BY <2>2, <2>4, <2>5, <2>6, <2>7, GoesOn
<1> QED BY <1>1, <1>2

LEMMA BetweenRecords ==
    ASSUME IInv, KInv, pc \in Between, pc' \in {"close", "rehash", "seal"},
           NEW e \in LastEvents, NEW p, log' = Append(log, Entry(e, p)),
           Rank(e) > UpTo(pc), UpTo(pc') >= Rank(e),
           UNCHANGED <<outputs, case, result>>,
           status = "COMPLETE" => e \notin {"cap.fired", "run.preflight_failed"}
    PROVE  KInv'
<1>1. UNCHANGED <<profile, required, status, written>>
  BY DEF case, result
<1>2. CASE status = "FATAL"
  BY <1>1, <1>2, Off DEF Body
<1>3. CASE status # "FATAL"
  <2>1. PICK s : s = log'
    OBVIOUS
  <2>2. /\ required <=> profile # {}
        /\ Based(log) /\ Bounded(log, UpTo(pc)) /\ UpTo(pc) \in {8, 13, 14}
        /\ Range(written) = {}
    BY <1>3, BetweenBase
  <2>3. UpTo(pc') \in {13, 14, 15} /\ Rank(e) \in Int
    BY RankType DEF UpTo
  <2>4. Based(s) /\ Bounded(s, Rank(e))
    BY <2>1, <2>2, BasedMore
  <2>5. Bounded(s, UpTo(pc'))
    BY <2>3, <2>4, BoundedMore
  <2>6. Based(s)'
    BY <1>1, <2>4, BasedKept
  <2>7. Follows(s)' /\ pc' \in Going
    BY <2>1 DEF Follows, Going, Sealing
  <2>8. required => profile # {}
    BY <2>2
  <2> QED BY <1>1, <2>2, <2>5, <2>6, <2>7, <2>8, GoesOn
<1> QED BY <1>2, <1>3

LEMMA HandleOn == ASSUME IInv, KInv, Handle PROVE KInv'
<1>1. pc = "handle" /\ pc \notin Body
  BY DEF Handle, At, Body
<1>2. CASE AppendFails \/ Unencodable
  BY <1>1, <1>2, FailsOff
<1>3. CASE ~(AppendFails \/ Unencodable)
  <2>1. /\ log' = Append(log, Entry(failure, NoPayload)) /\ pc' = "close"
        /\ UNCHANGED <<files, outputs, torn, temporaries, case, result>>
    BY <1>3 DEF Handle, Record, Goto
  <2>2. CASE status = "FATAL"
    BY <2>1, <2>2, Off DEF Body, case, result
  <2>3. CASE status # "FATAL"
    <3>1. status # "COMPLETE" /\ failure \in {"cap.fired", "run.preflight_failed"}
      BY <1>1, <2>3 DEF KInv, Recorded, Going
    <3>2. failure \in LastEvents /\ Rank(failure) \in {11, 13}
      BY <3>1, Ranks DEF LastEvents
    <3>3. UpTo(pc) = 8 /\ UpTo(pc') = 13
      BY <1>1, <2>1 DEF UpTo
    <3> QED BY <1>1, <2>1, <3>1, <3>2, <3>3, BetweenRecords DEF Between
  <2> QED BY <2>2, <2>3
<1> QED BY <1>2, <1>3

LEMMA ReleaseOn == ASSUME IInv, KInv, Close \/ CheckReleased PROVE KInv'
<1>1. <<pc, pc'>> \in {<<"close", "unmounted">>, <<"unmounted", "final">>}
  BY DEF Close, CheckReleased, At, Goto
<1>2. UNCHANGED <<log, outputs, profile, required, status, written>>
  BY DEF Close, CheckReleased, bundle, case, result
<1>3. UpTo(pc) =< UpTo(pc') /\ pc \in Between
  BY <1>1 DEF UpTo, Between
<1> QED BY <1>1, <1>2, <1>3, BetweenSilent

LEMMA UnreleasedOn == ASSUME IInv, KInv, ReportUnreleased PROVE KInv'
<1>1. CASE AppendFails
  BY <1>1, FailsOff
<1>2. CASE ~AppendFails
  <2>1. status' = "FATAL" /\ pc' = "final" /\ UNCHANGED case
    BY <1>2 DEF ReportUnreleased, Goto
  <2> QED BY <2>1, Off DEF Body, case
<1> QED BY <1>1, <1>2

LEMMA FinalOn == ASSUME IInv, KInv, StartFinal PROVE KInv'
<1>1. pc = "final" /\ pc \in Between
  BY DEF StartFinal, At, Between
<1>2. CASE AppendFails
  BY <1>2, FailsOff
<1>3. CASE required /\ ~AppendFails
  <2>1. /\ log' = Append(log, Entry("custody.final.started", NoPayload)) /\ pc' = "rehash"
        /\ UNCHANGED <<outputs, case, result>>
    BY <1>3 DEF StartFinal, Record, Goto
  <2>2. "custody.final.started" \in LastEvents
    BY DEF LastEvents
  <2>3. UpTo(pc) = 13 /\ UpTo(pc') = 14 /\ Rank("custody.final.started") = 14
    BY <1>1, <2>1, Ranks DEF UpTo
  <2> QED BY <1>1, <2>1, <2>2, <2>3, BetweenRecords
<1>4. CASE ~required
  <2>1. pc' = "seal" /\ UNCHANGED <<bundle, case, result>>
    BY <1>4 DEF StartFinal, Goto
  <2>2. UpTo(pc) =< UpTo(pc')
    BY <1>1, <2>1 DEF UpTo
  <2> QED BY <1>1, <2>1, <2>2, BetweenSilent DEF bundle, case, result
<1> QED BY <1>2, <1>3, <1>4

LEMMA CustodyOn == ASSUME IInv, KInv, VerifyCustody \/ ReportMismatch PROVE KInv'
<1>1. CASE AppendFails
  BY <1>1, FailsOff
<1>2. CASE VerifyCustody /\ ~AppendFails
  <2>1. pc = "rehash" /\ pc \in Between
    BY <1>2 DEF VerifyCustody, At, Between
  <2>2. CASE evidence = baseline
    <3> DEFINE p == [hashes |-> evidence, released |-> released]
    <3>1. /\ log' = Append(log, Entry("custody.final.completed", p)) /\ pc' = "seal"
          /\ UNCHANGED <<outputs, case, result>>
      BY <1>2, <2>2 DEF VerifyCustody, Record, Goto
    <3>2. "custody.final.completed" \in LastEvents
      BY DEF LastEvents
    <3>3. UpTo(pc) = 14 /\ UpTo(pc') = 15 /\ Rank("custody.final.completed") = 15
      BY <2>1, <3>1, Ranks DEF UpTo
    <3> HIDE DEF p
    <3> QED BY <2>1, <3>1, <3>2, <3>3, BetweenRecords
  <2>3. CASE evidence # baseline
    <3>1. status' = "FATAL" /\ pc' = "mismatched" /\ UNCHANGED case
      BY <1>2, <2>3 DEF VerifyCustody, Goto
    <3> QED BY <3>1, Off DEF Body, case
  <2> QED BY <2>2, <2>3
<1>3. CASE ReportMismatch /\ ~AppendFails
  <2>1. pc = "mismatched" /\ status = "FATAL" /\ pc \notin Body
    BY <1>3 DEF ReportMismatch, At, IInv, Rested, Body
  <2>2. CASE Unencodable
    BY <2>1, <2>2, FailsOff
  <2>3. CASE ~Unencodable
    <3>1. pc' = "seal" /\ UNCHANGED <<case, result>>
      BY <1>3, <2>3 DEF ReportMismatch, Record, Goto
    <3> QED BY <2>1, <3>1, Off DEF Body, case, result
  <2> QED BY <2>2, <2>3
<1> QED BY <1>1, <1>2, <1>3

\* The receipts of the artifacts are records, one for each.
LEMMA WritesLog ==
    ASSUME NEW k \in Nat
    PROVE  /\ IsLog(Writes(k)) /\ Len(Writes(k)) = k /\ DOMAIN Writes(k) = 1..k
           /\ \A i \in 1..k : /\ Writes(k)[i].event = "artifact.written"
                              /\ Writes(k)[i].payload = [path |-> written[i]]
<1> DEFINE f == [i \in 1..k |-> [path |-> written[i]]]
           s == [i \in 1..k |-> Entry("artifact.written", f[i])]
<1>1. Writes(k) = s
  BY DEF Writes
<1>2. "artifact.written" \in Events
  BY DEF Events
<1>3. OfEvent(s, k, "artifact.written", f)
  BY <1>2 DEF Range, OfEvent
<1>4. \A i \in 1..k : s[i].event = "artifact.written" /\ s[i].payload = [path |-> written[i]]
  BY IsEntry
<1> HIDE DEF f, s
<1>5. IsLog(s) /\ Len(s) = k
  BY <1>3, SameEvent
<1>6. DOMAIN s = 1..k
  BY <1>3 DEF OfEvent
<1> QED BY <1>1, <1>4, <1>5, <1>6

LEMMA NoWrites == ASSUME NEW s, IsLog(s) PROVE s \o Writes(0) = s
<1> DEFINE t == Writes(0)
<1>1. IsLog(t) /\ Len(t) = 0
  BY WritesLog
<1> HIDE DEF t
<1>2. t = <<>>
  BY <1>1, EmptySeq DEF IsLog
<1>3. s \o <<>> = s
  BY ConcatEmptySeq DEF IsLog
<1> QED BY <1>2, <1>3 DEF t

LEMMA NextWrite ==
    ASSUME NEW s, IsLog(s), NEW k \in Nat
    PROVE  Append(s \o Writes(k), Entry("artifact.written", [path |-> written[k + 1]])) =
                s \o Writes(k + 1)
<1> DEFINE e == Entry("artifact.written", [path |-> written[k + 1]])
           t == Writes(k)
           u == Writes(k + 1)
           R == Range(s) \cup Range(t) \cup Range(u) \cup {e}
<1>1. /\ IsLog(t) /\ Len(t) = k /\ DOMAIN t = 1..k
      /\ IsLog(u) /\ Len(u) = k + 1 /\ DOMAIN u = 1..(k + 1)
  BY WritesLog
<1>2. \A i \in 1..k : t[i] = u[i]
  BY DEF Writes
<1>3. u[k + 1] = e
  BY DEF Writes
<1> HIDE DEF t, u, e
<1>4. s \in Seq(R) /\ t \in Seq(R) /\ u \in Seq(R) /\ e \in R
  <2>1. s \in Seq(Range(s)) /\ t \in Seq(Range(t)) /\ u \in Seq(Range(u))
    BY <1>1 DEF IsLog
  <2> QED BY <2>1, SeqMonotonic
<1> HIDE DEF R
<1>5. Append(t, e) = u
  <2> DEFINE v == Append(t, e)
  <2>1. /\ v \in Seq(R) /\ Len(v) = k + 1 /\ v[k + 1] = e
        /\ \A i \in 1..k : v[i] = t[i]
    BY <1>1, <1>4, AppendProperties
  <2> HIDE DEF v
  <2>2. \A i \in 1..(k + 1) : v[i] = u[i]
    <3> TAKE i \in 1..(k + 1)
    <3>1. i \in 1..k \/ i = k + 1
      OBVIOUS
    <3> QED BY <1>2, <1>3, <2>1, <3>1
  <2>3. v = u
    BY <1>1, <1>4, <2>1, <2>2, SeqEqual
  <2> QED BY <2>3 DEF v
<1>6. Append(s \o t, e) = s \o Append(t, e)
  <2>1. s \o t \in Seq(R) /\ <<e>> \in Seq(R)
    BY <1>4, ConcatProperties
  <2>2. Append(s \o t, e) = (s \o t) \o <<e>>
    BY <1>4, <2>1, AppendIsConcat
  <2>3. Append(t, e) = t \o <<e>>
    BY <1>4, AppendIsConcat
  <2>4. (s \o t) \o <<e>> = s \o (t \o <<e>>)
    BY <1>4, <2>1, ConcatAssociative
  <2> QED BY <2>2, <2>3, <2>4
<1> QED BY <1>5, <1>6 DEF e, t, u

\* Which of the records are receipts of artifacts.
LEMMA WrittenIndices ==
    ASSUME NEW s, IsLog(s), Bounded(s, 15), NEW k \in Nat
    PROVE  /\ Indices(s \o Writes(k), "artifact.written") = (Len(s) + 1)..(Len(s) + k)
           /\ Cardinality(Indices(s \o Writes(k), "artifact.written")) = k
<1> DEFINE t == Writes(k)
           u == s \o t
<1>1. /\ IsLog(t) /\ Len(t) = k /\ DOMAIN t = 1..k
      /\ \A i \in 1..k : t[i].event = "artifact.written"
  BY WritesLog
<1> HIDE DEF t
<1>2. /\ DOMAIN u = 1..(Len(s) + k) /\ DOMAIN s = 1..Len(s) /\ Len(s) \in Nat
      /\ \A i \in 1..(Len(s) + k) : u[i] = IF i =< Len(s) THEN s[i] ELSE t[i - Len(s)]
  BY <1>1, Parts
<1> HIDE DEF u
<1>3. \A i \in DOMAIN s : s[i].event # "artifact.written"
  BY NoneAbove, Ranks
<1>4. Indices(u, "artifact.written") = (Len(s) + 1)..(Len(s) + k)
  <2>1. ASSUME NEW i \in DOMAIN u PROVE u[i].event = "artifact.written" <=> i > Len(s)
    <3>1. CASE i =< Len(s)
      BY <1>2, <1>3, <3>1
    <3>2. CASE i > Len(s)
      <4>1. i - Len(s) \in 1..k /\ u[i] = t[i - Len(s)]
        BY <1>2, <3>2
      <4> QED BY <1>1, <3>2, <4>1
    <3> QED BY <1>2, <3>1, <3>2
  <2> QED BY <1>2, <2>1 DEF Indices
<1>5. Cardinality((Len(s) + 1)..(Len(s) + k)) = k
  <2>1. Len(s) + 1 \in Int /\ Len(s) + k \in Int
    BY <1>2
  <2>2. Cardinality((Len(s) + 1)..(Len(s) + k)) =
            IF Len(s) + 1 > Len(s) + k THEN 0 ELSE (Len(s) + k) - (Len(s) + 1) + 1
    BY <2>1, FS_Interval
  <2> QED BY <1>2, <2>2
<1> QED BY <1>4, <1>5 DEF t, u

\* What a run that is sealed rests on.
Sealings == {"seal", "receipts", "complete", "sealed", "manifest", "checksum", "verify"}
LEMMA SealingBase ==
    ASSUME KInv, pc \in Sealings, status # "FATAL"
    PROVE  /\ (required <=> profile # {})
           /\ pc # "seal" => written = ToWrite
           /\ \E s : /\ Based(s) /\ Bounded(s, 15) /\ Follows(s)
                     /\ \A n \in Range(written) : files[n] = ContentOver(s, n)
<1>1. UpTo(pc) = 15 /\ pc \in Going
  BY DEF Sealings, UpTo, Going, Sealing
<1> QED BY <1>1 DEF KInv, Recorded, Sealings

LEMMA SealingGoes ==
    ASSUME KInv, pc \in Sealings, pc' \in Sealings, UNCHANGED <<profile, required, status>>,
           status # "FATAL" =>
            /\ pc' # "seal" => written' = ToWrite'
            /\ \E s : /\ Based(s)' /\ Bounded(s, 15) /\ Follows(s)'
                      /\ \A n \in Range(written') : files'[n] = ContentOver(s, n)'
    PROVE  KInv'
<1>1. CASE status = "FATAL"
  BY <1>1, Off DEF Body, Sealings
<1>2. CASE status # "FATAL"
  <2>1. PICK s : /\ Based(s)' /\ Bounded(s, 15) /\ Follows(s)'
                 /\ \A n \in Range(written') : files'[n] = ContentOver(s, n)'
    BY <1>2
  <2>2. UpTo(pc') = 15 /\ pc' \in Going /\ pc' # "handle"
    BY DEF Sealings, UpTo, Going, Sealing
  <2>3. required <=> profile # {}
    BY <1>2, SealingBase
  <2>4. required => profile # {}
    BY <2>3
  <2>5. pc' \in {"receipts", "complete", "sealed", "manifest", "checksum", "verify"} =>
            written' = ToWrite'
    BY <1>2
  <2>6. Bounded(s, UpTo(pc'))
    BY <2>1, <2>2
  <2> QED BY <2>1, <2>2, <2>3, <2>4, <2>5, <2>6, GoesOn
<1> QED BY <1>1, <1>2

LEMMA SealOn == ASSUME IInv, KInv, Seal PROVE KInv'
<1> DEFINE n == Len(written)
           name == Head(Unwritten)
<1>1. pc = "seal" /\ Unwritten # <<>> /\ pc \notin Body
  BY DEF Seal, At, Body
<1>2. /\ ToWrite \in Seq(Names) /\ Len(ToWrite) \in Nat /\ n \in Nat /\ n =< Len(ToWrite)
      /\ written \in Seq(Names) /\ Range(written) \subseteq Names
  BY WritesRoot, WrittenFits, LenProperties DEF IInv
<1>3. n < Len(ToWrite)
  <2>1. n = Len(ToWrite) => Unwritten = <<>>
    BY <1>2, SubSeqEmpty DEF Unwritten
  <2> QED BY <1>1, <1>2, <2>1
<1>4. name = ToWrite[n + 1] /\ name \in Names /\ Len(Unwritten) = Len(ToWrite) - n
  <2>1. n + 1 \in 1..Len(ToWrite) /\ Len(ToWrite) \in (n + 1)..Len(ToWrite)
    BY <1>2, <1>3
  <2>2. name = ToWrite[n + 1]
    BY <1>2, <2>1, HeadTailOfSubSeq DEF Unwritten
  <2>3. name \in Names
    BY <1>2, <2>1, <2>2, ElementOfSeq
  <2>4. \A i \in (n + 1)..Len(ToWrite) : ToWrite[i] \in Names
    BY <1>2, ElementOfSeq
  <2>5. Len(Unwritten) = IF n + 1 =< Len(ToWrite) THEN Len(ToWrite) - (n + 1) + 1 ELSE 0
    BY <1>2, <2>4, SubSeqProperties DEF Unwritten
  <2> QED BY <1>2, <1>3, <2>2, <2>3, <2>5
<1>5. DOMAIN files = Range(written) /\ Range(RootArtifacts) = Names
  BY <1>1, WritesRoot DEF IInv, OnDisk, Sealing
<1> HIDE DEF name, n
<1>6. CASE \E exception : Throw(exception) /\ UNCHANGED case
  BY <1>1, <1>6, ThrownOff DEF case
<1>7. CASE /\ temporaries' = temporaries \cup {name}
           /\ UNCHANGED <<pc, log, files, outputs, torn, case, result, faults>>
  BY <1>7, Kept DEF case, result
<1>8. CASE /\ files' = Replaced(name, Content(name))
           /\ written' = Append(written, name)
           /\ Goto(IF Len(Unwritten) = 1 THEN "receipts" ELSE "seal")
           /\ UNCHANGED <<log, outputs, torn, case, run, status, failure, exit>>
  <2>1. /\ UNCHANGED <<log, outputs, profile, required, released, run, status>>
        /\ pc' = IF Len(Unwritten) = 1 THEN "receipts" ELSE "seal"
    BY <1>8 DEF Goto, case
  <2>2. InOrder' /\ Range(written') = Range(written) \cup {name}
    BY <1>3, <1>4, <1>8, WritesNext DEF IInv, case, n
  <2>3. Len(written') = n + 1
    BY <1>2, <1>4, <1>8, AppendProperties DEF n
  <2>4. pc' = "receipts" => written' = ToWrite'
    <3>1. SUFFICES ASSUME pc' = "receipts" PROVE written' = ToWrite'
      OBVIOUS
    <3>2. Len(Unwritten) = 1
      BY <2>1, <3>1
    <3>3. Len(written') = Len(ToWrite)
      <4>1. Len(ToWrite) - n = 1
        BY <1>4, <3>2
      <4> QED BY <1>2, <2>3, <4>1
    <3>4. ToWrite' = ToWrite
      BY <2>1 DEF ToWrite
    <3>5. written' = SubSeq(ToWrite, 1, Len(ToWrite))
      BY <2>2, <3>3, <3>4 DEF InOrder
    <3>6. SubSeq(ToWrite, 1, Len(ToWrite)) = ToWrite
      BY <1>2, SubSeqFull
    <3> QED BY <3>4, <3>5, <3>6
  <2>5. ASSUME status # "FATAL"
        PROVE  \E s : /\ Based(s)' /\ Bounded(s, 15) /\ Follows(s)'
                      /\ \A m \in Range(written') : files'[m] = ContentOver(s, m)'
    <3>1. PICK s : /\ Based(s) /\ Bounded(s, 15) /\ Follows(s)
                   /\ \A m \in Range(written) : files[m] = ContentOver(s, m)
      BY <1>1, <2>5, SealingBase DEF Sealings
    <3>2. log = s
      BY <1>1, <3>1 DEF Follows
    <3>3. Content(name) = ContentOver(s, name)
      BY <3>2 DEF Content, ContentOver, Summary
    <3>4. \A m \in Range(written') : files'[m] = ContentOver(s, m)
      <4>1. /\ DOMAIN files' = DOMAIN files \cup {name} /\ files'[name] = Content(name)
            /\ \A m \in DOMAIN files : m # name => files'[m] = files[m]
        BY <1>8, ReplacedFits
      <4> TAKE m \in Range(written')
      <4>2. CASE m = name
        BY <3>3, <4>1, <4>2
      <4>3. CASE m # name
        BY <1>5, <2>2, <3>1, <4>1, <4>3
      <4> QED BY <4>2, <4>3
    <3>5. \A m \in Range(written') : files'[m] = ContentOver(s, m)'
      BY <2>1, <3>4, ContentKept
    <3>6. Based(s)'
      BY <2>1, <3>1, BasedKept
    <3>7. Follows(s)'
      <4>1. CASE pc' = "seal"
        BY <2>1, <3>2, <4>1 DEF Follows
      <4>2. CASE pc' = "receipts"
        <5>1. IsLog(s)
          BY <3>1 DEF Based
        <5>2. (s \o Writes(0))' = s
          <6>1. Writes(0)' = Writes(0)
            BY DEF Writes
          <6>2. s \o Writes(0) = s
            BY <5>1, NoWrites
          <6> QED BY <6>1, <6>2
        <5>3. 0 \in 0..(Len(written') - 1)
          BY <1>2, <2>3
        <5>4. log' = s \o Writes(0)'
          BY <2>1, <3>2, <5>2
        <5> QED BY <4>2, <5>3, <5>4 DEF Follows
      <4> QED BY <2>1, <4>1, <4>2
    <3> QED BY <3>1, <3>5, <3>6, <3>7
  <2>6. pc \in Sealings /\ pc' \in Sealings
    BY <1>1, <2>1 DEF Sealings
  <2>7. pc' # "seal" => written' = ToWrite'
    BY <2>1, <2>4
  <2> QED BY <2>1, <2>5, <2>6, <2>7, SealingGoes
<1>9. CASE torn /\ name = "summary.json"
  <2>1. Throw("AuditError") /\ UNCHANGED case
    BY <1>9 DEF Seal, name
  <2> QED BY <1>6, <2>1
<1>10. CASE Write(name, Content(name), IF Len(Unwritten) = 1 THEN "receipts" ELSE "seal")
  BY <1>4, <1>5, <1>6, <1>7, <1>8, <1>10 DEF Write
<1> QED BY <1>9, <1>10 DEF Seal, name

LEMMA WritesRecorded == ASSUME IInv, KInv, RecordWrites PROVE KInv'
<1>1. pc = "receipts" /\ pc \in Sealings
  BY DEF RecordWrites, At, Sealings
<1>2. CASE AppendFails
  BY <1>2, FailsOff
<1>3. CASE ~AppendFails
  <2> DEFINE next == Cardinality(Indices(log, "artifact.written")) + 1
  <2>1. /\ log' = Append(log, Entry("artifact.written", [path |-> written[next]]))
        /\ pc' = IF next = Len(written) THEN "complete" ELSE "receipts"
        /\ UNCHANGED <<files, outputs, torn, temporaries, case, result>>
    BY <1>3 DEF RecordWrites, Record, Goto
  <2>2. UNCHANGED <<profile, required, released, run, status, written>>
        /\ pc' \in {"complete", "receipts"} /\ pc' \in Sealings
    BY <2>1 DEF case, result, Sealings
  <2> HIDE DEF next
  <2>3. ASSUME status # "FATAL"
        PROVE  /\ pc' # "seal" => written' = ToWrite'
               /\ \E s : /\ Based(s)' /\ Bounded(s, 15) /\ Follows(s)'
                         /\ \A m \in Range(written') : files'[m] = ContentOver(s, m)'
    <3>1. /\ written = ToWrite
          /\ \E s : /\ Based(s) /\ Bounded(s, 15) /\ Follows(s)
                    /\ \A m \in Range(written) : files[m] = ContentOver(s, m)
      BY <1>1, <2>3, SealingBase
    <3>2. PICK s : /\ Based(s) /\ Bounded(s, 15) /\ Follows(s)
                   /\ \A m \in Range(written) : files[m] = ContentOver(s, m)
      BY <3>1
    <3>3. PICK k \in 0..(Len(written) - 1) : log = s \o Writes(k)
      BY <1>1, <3>2 DEF Follows
    <3>4. IsLog(s) /\ k \in Nat /\ Len(written) \in Nat
      BY <3>2, <3>3, WrittenFits DEF Based, IInv
    <3>5. next = k + 1
      BY <3>2, <3>3, <3>4, WrittenIndices DEF next
    <3>6. log' = s \o Writes(k + 1)
      BY <2>1, <3>3, <3>4, <3>5, NextWrite
    <3>7. \A j : Writes(j)' = Writes(j)
      BY <2>2 DEF Writes
    <3>8. Follows(s)'
      <4>1. CASE k + 1 = Len(written)
        <5>1. pc' = "complete"
          BY <2>1, <3>5, <4>1
        <5>2. log' = s \o Writes(Len(written))
          BY <3>6, <4>1
        <5>3. Writes(Len(written))' = Writes(Len(written))
          BY <2>2 DEF Writes
        <5>4. log' = s \o Writes(Len(written))'
          BY <5>2, <5>3
        <5> QED BY <5>1, <5>4 DEF Follows
      <4>2. CASE k + 1 # Len(written)
        <5>1. pc' = "receipts"
          BY <2>1, <3>5, <4>2
        <5>2. k + 1 \in 0..(Len(written') - 1)
          BY <2>2, <3>3, <3>4, <4>2
        <5>3. log' = s \o Writes(k + 1)'
          BY <3>6, <3>7
        <5> QED BY <5>1, <5>2, <5>3 DEF Follows
      <4> QED BY <4>1, <4>2
    <3>9. Based(s)'
      BY <2>1, <2>2, <3>2, BasedKept
    <3>10. \A m \in Range(written') : files'[m] = ContentOver(s, m)'
      BY <2>1, <2>2, <3>2, ContentKept
    <3>11. written' = ToWrite'
      BY <2>2, <3>1 DEF ToWrite
    <3> QED BY <3>2, <3>8, <3>9, <3>10, <3>11
  <2> QED BY <1>1, <2>2, <2>3, SealingGoes
<1> QED BY <1>2, <1>3

LEMMA CompletionOn == ASSUME IInv, KInv, RecordCompletion PROVE KInv'
<1>1. pc = "complete" /\ pc \in Sealings
  BY DEF RecordCompletion, At, Sealings
<1>2. CASE AppendFails
  BY <1>2, FailsOff
<1>3. CASE ~AppendFails
  <2>1. /\ log' = Append(log, Done) /\ pc' = "sealed"
        /\ UNCHANGED <<files, outputs, torn, temporaries, case, result>>
    BY <1>3 DEF RecordCompletion, Record, Goto, Done
  <2>2. UNCHANGED <<profile, required, released, run, status, written>> /\ pc' \in Sealings
    BY <2>1 DEF case, result, Sealings
  <2>3. ASSUME status # "FATAL"
        PROVE  /\ pc' # "seal" => written' = ToWrite'
               /\ \E s : /\ Based(s)' /\ Bounded(s, 15) /\ Follows(s)'
                         /\ \A m \in Range(written') : files'[m] = ContentOver(s, m)'
    <3>1. /\ written = ToWrite
          /\ \E s : /\ Based(s) /\ Bounded(s, 15) /\ Follows(s)
                    /\ \A m \in Range(written) : files[m] = ContentOver(s, m)
      BY <1>1, <2>3, SealingBase
    <3>2. PICK s : /\ Based(s) /\ Bounded(s, 15) /\ Follows(s)
                   /\ \A m \in Range(written) : files[m] = ContentOver(s, m)
      BY <3>1
    <3>3. log = s \o Writes(Len(written))
      BY <1>1, <3>2 DEF Follows
    <3>4. Append(log, Done) = log \o <<Done>>
      <4>1. IsLog(log)
        BY <1>1 DEF IInv, Shaped
      <4>2. log \in Seq(Range(log) \cup {Done})
        BY <4>1, SeqMonotonic DEF IsLog
      <4> QED BY <4>2, AppendIsConcat
    <3>5. Writes(Len(written))' = Writes(Len(written)) /\ Done' = Done
      BY <2>2 DEF Writes, Done, CapName
    <3>6. Follows(s)'
      <4>1. log' = s \o Writes(Len(written)) \o <<Done>>
        BY <2>1, <3>3, <3>4
      <4>2. log' = s \o Writes(Len(written))' \o <<Done'>>
        BY <3>5, <4>1
      <4> QED BY <2>1, <4>2 DEF Follows
    <3>7. Based(s)'
      BY <2>1, <2>2, <3>2, BasedKept
    <3>8. \A m \in Range(written') : files'[m] = ContentOver(s, m)'
      BY <2>1, <2>2, <3>2, ContentKept
    <3>9. written' = ToWrite'
      BY <2>2, <3>1 DEF ToWrite
    <3> QED BY <3>2, <3>6, <3>7, <3>8, <3>9
  <2> QED BY <1>1, <2>2, <2>3, SealingGoes
<1> QED BY <1>2, <1>3

\* After the last record the log stays and the files that are written stay.
LEMMA AfterLog ==
    ASSUME IInv, KInv, pc \in {"sealed", "manifest", "checksum"},
           pc' \in {"manifest", "checksum", "verify"},
           UNCHANGED <<log, outputs, case, run, status, written>>,
           \A m \in Range(written) : files'[m] = files[m]
    PROVE  KInv'
<1>1. pc \in Sealings /\ pc' \in Sealings /\ UNCHANGED <<profile, required, released>>
  BY DEF Sealings, case
<1>2. ASSUME status # "FATAL"
      PROVE  /\ pc' # "seal" => written' = ToWrite'
             /\ \E s : /\ Based(s)' /\ Bounded(s, 15) /\ Follows(s)'
                       /\ \A m \in Range(written') : files'[m] = ContentOver(s, m)'
  <2>1. /\ written = ToWrite
        /\ \E s : /\ Based(s) /\ Bounded(s, 15) /\ Follows(s)
                  /\ \A m \in Range(written) : files[m] = ContentOver(s, m)
    BY <1>1, <1>2, SealingBase
  <2>2. PICK s : /\ Based(s) /\ Bounded(s, 15) /\ Follows(s)
                 /\ \A m \in Range(written) : files[m] = ContentOver(s, m)
    BY <2>1
  <2>3. log = s \o Writes(Len(written)) \o <<Done>>
    BY <2>2 DEF Follows
  <2>4. Writes(Len(written))' = Writes(Len(written)) /\ Done' = Done
    BY <1>1 DEF Writes, Done, CapName
  <2>5. Follows(s)'
    <3>1. log' = s \o Writes(Len(written))' \o <<Done'>>
      BY <2>3, <2>4
    <3> QED BY <3>1 DEF Follows
  <2>6. Based(s)'
    BY <1>1, <2>2, BasedKept
  <2>7. \A m \in Range(written') : files'[m] = ContentOver(s, m)'
    BY <1>1, <2>2, ContentKept
  <2>8. written' = ToWrite'
    BY <1>1, <2>1 DEF ToWrite
  <2> QED BY <2>2, <2>5, <2>6, <2>7, <2>8
<1> QED BY <1>1, <1>2, SealingGoes

LEMMA SealedOn == ASSUME IInv, KInv, Sealed PROVE KInv'
<1>1. pc = "sealed" /\ pc \notin Body /\ UNCHANGED <<bundle, case, run, written>>
  BY DEF Sealed, At, Body
<1>2. CASE torn
  BY <1>1, <1>2, ThrownOff DEF Sealed, case
<1>3. CASE ~torn
  <2>1. pc' = "manifest" /\ status' = status
    BY <1>3 DEF Sealed, Goto
  <2> QED BY <1>1, <2>1, AfterLog DEF bundle
<1> QED BY <1>2, <1>3

\* The manifest and its checksum are no root artifacts.
LEMMA WriteOn ==
    ASSUME IInv, KInv, pc \in {"manifest", "checksum"}, NEW name \in {Manifest, Detached},
           NEW content, NEW next \in {"checksum", "verify"}, Write(name, content, next)
    PROVE  KInv'
<1>1. pc \notin Body /\ name \notin Range(RootArtifacts) /\ name \notin Range(written)
  BY WritesRoot, WrittenFits DEF Body, IInv
<1>2. Range(written) \subseteq DOMAIN files
  BY DEF IInv, OnDisk, Whole
<1>3. CASE \E exception : Throw(exception) /\ UNCHANGED case
  BY <1>1, <1>3, ThrownOff DEF case
<1>4. CASE /\ temporaries' = temporaries \cup {name}
           /\ UNCHANGED <<pc, log, files, outputs, torn, case, result, faults>>
  BY <1>4, Kept DEF case, result
<1>5. CASE /\ files' = Replaced(name, content) /\ written' = written /\ Goto(next)
           /\ UNCHANGED <<log, outputs, torn, case, run, status, failure, exit>>
  <2>1. \A m \in DOMAIN files : m # name => files'[m] = files[m]
    BY <1>5, ReplacedFits
  <2>2. \A m \in Range(written) : files'[m] = files[m]
    BY <1>1, <1>2, <2>1
  <2>3. pc' \in {"checksum", "verify"}
    BY <1>5 DEF Goto
  <2> QED BY <1>5, <2>2, <2>3, AfterLog
<1> QED BY <1>1, <1>3, <1>4, <1>5 DEF Write

LEMMA ListOn == ASSUME IInv, KInv, WriteManifest \/ WriteChecksum PROVE KInv'
<1>1. CASE WriteManifest
  <2>1. PICK content : pc = "manifest" /\ Write(Manifest, content, "checksum")
    BY <1>1 DEF WriteManifest, At, Manifest
  <2> QED BY <2>1, WriteOn
<1>2. CASE WriteChecksum
  <2>1. PICK content : pc = "checksum" /\ Write(Detached, content, "verify")
    BY <1>2 DEF WriteChecksum, At, Detached
  <2> QED BY <2>1, WriteOn
<1> QED BY <1>1, <1>2

LEMMA LastOn ==
    ASSUME IInv, KInv, Verify \/ Escape \/ ReportFinalization \/ Damage
    PROVE  KInv'
<1>1. pc' \in {"end", "escape", "damaged"} /\ UNCHANGED <<profile, required>>
  BY DEF Verify, Escape, ReportFinalization, Damage, Goto, case
<1> QED BY <1>1, Off, GoingPlaces DEF Body

LEMMA AroundOn == ASSUME KInv, Disturb \/ Kill \/ UNCHANGED vars PROVE KInv'
<1>1. UNCHANGED <<pc, log, files, outputs, baseline, profile, required, released, run,
                  status, failure, written>>
  BY DEF Disturb, Kill, vars, bundle, case, result
<1> QED BY <1>1, Kept

LEMMA KInitially == Init => KInv
<1> SUFFICES ASSUME Init PROVE KInv
  OBVIOUS
<1>1. pc = "created" /\ log = <<>> /\ run = {} /\ profile = {} /\ required = FALSE
  BY DEF Init
<1>2. DOMAIN log = {} /\ \A e : Payloads(log, e) = {}
  BY <1>1, NoEntry, EmptySeq
<1>3. Ordered(log) /\ Bounded(log, UpTo(pc))
  BY <1>2 DEF Ordered, Bounded
<1>4. OnCourse
  BY <1>1, <1>2, <1>3 DEF OnCourse, Unprofiled
<1>5. Recorded
  BY <1>1, GoingPlaces DEF Recorded
<1> QED BY <1>4, <1>5 DEF KInv

LEMMA KNextKeeps == IInv /\ KInv /\ [Next]_vars => KInv'
<1> SUFFICES ASSUME IInv, KInv, [Next]_vars PROVE KInv'
  OBVIOUS
<1>1. CASE Create \/ Configure \/ StartCustody \/ RecordBaseline \/ RecordProfile
  BY <1>1, RecordOnCourse
<1>2. CASE OpenSession \/ Profile \/ Require \/ Route \/ LoadTools
  BY <1>2, PlainOnCourse
<1>3. CASE Raise
  BY <1>3, RaiseOn
<1>4. CASE Interrupt
  BY <1>4, FailsOff
<1>5. CASE AgentCompletes \/ AgentStops
  BY <1>5, AgentEndsSteps
<1>6. CASE AgentRaises
  BY <1>6, AgentRaisesOn
<1>7. CASE Handle
  BY <1>7, HandleOn
<1>8. CASE Close \/ CheckReleased
  BY <1>8, ReleaseOn
<1>9. CASE ReportUnreleased
  BY <1>9, UnreleasedOn
<1>10. CASE StartFinal
  BY <1>10, FinalOn
<1>11. CASE VerifyCustody \/ ReportMismatch
  BY <1>11, CustodyOn
<1>12. CASE Seal
  BY <1>12, SealOn
<1>13. CASE RecordWrites
  BY <1>13, WritesRecorded
<1>14. CASE RecordCompletion
  BY <1>14, CompletionOn
<1>15. CASE Sealed
  BY <1>15, SealedOn
<1>16. CASE WriteManifest \/ WriteChecksum
  BY <1>16, ListOn
<1>17. CASE Verify \/ Escape \/ ReportFinalization \/ Damage
  BY <1>17, LastOn
<1>18. CASE Disturb \/ Kill \/ Ended \/ UNCHANGED vars
  BY <1>18, AroundOn DEF Ended
<1> QED BY <1>1, <1>2, <1>3, <1>4, <1>5, <1>6, <1>7, <1>8, <1>9, <1>10, <1>11, <1>12, <1>13,
           <1>14, <1>15, <1>16, <1>17, <1>18 DEF Next, RunCli

LEMMA KInductive == Spec => []KInv
<1>1. Init => IInv /\ KInv
  BY Initially, KInitially
<1>2. (IInv /\ KInv) /\ [Next]_vars => (IInv /\ KInv)'
  BY NextKeeps, KNextKeeps
<1> QED BY <1>1, <1>2, PTL DEF Spec

LEMMA FirstWritten ==
    ASSUME NEW l, NEW k \in Nat, Len(l) \in Nat, k \in 1..Len(l),
           \A i \in 1..Len(l) : l[i].event = "artifact.written" => i >= k,
           l[k].event = "artifact.written"
    PROVE  Preterminal(l) = k
<1> DEFINE I == {i \in 1..Len(l) : l[i].event = "artifact.written"}
<1>1. k \in I /\ \A i \in I : k =< i
  OBVIOUS
<1>2. Min(I) = k
  <2>1. \A i \in I : i \in Int
    OBVIOUS
  <2> HIDE DEF I
  <2> QED BY <1>1, <2>1 DEF Min
<1>3. Preterminal(l) = IF I # {} THEN Min(I) ELSE 0
  BY DEF Preterminal, SelectInSeq
<1> QED BY <1>1, <1>2, <1>3

\* The log of a sealed run, place by place: the records before the artifacts, a receipt for
\* every artifact, the last record.
Closed(s) ==
    /\ IsLog(s) /\ Ordered(s) /\ OneEach(s) /\ Bounded(s, 15)
    /\ Len(s) \in Nat /\ DOMAIN s = 1..Len(s) /\ Len(written) \in {4, 5}
    /\ Len(log) = Len(s) + Len(written) + 1 /\ DOMAIN log = 1..(Len(s) + Len(written) + 1)
    /\ \A i \in 1..Len(s) : log[i] = s[i]
    /\ \A i \in 1..Len(written) :
        /\ log[Len(s) + i].event = "artifact.written"
        /\ log[Len(s) + i].payload = [path |-> written[i]]
    /\ log[Len(s) + Len(written) + 1].event = "run.completed"
    /\ log[Len(s) + Len(written) + 1].payload =
        [status |-> status, exit |-> ExitCode[status], cap |-> CapName, released |-> released]
    /\ SubSeq(log, 1, Len(s)) = s

LEMMA ClosedLog ==
    ASSUME NEW s, IsLog(s), Ordered(s), OneEach(s), Bounded(s, 15), Len(written) \in {4, 5},
           log = s \o Writes(Len(written)) \o <<Done>>
    PROVE  Closed(s)
<1> DEFINE n == Len(written)
           m == Len(s)
           t == Writes(n)
           d == <<Done>>
           u == s \o t
<1>0. n \in Nat /\ n \in {4, 5}
  OBVIOUS
<1>1. /\ IsLog(t) /\ Len(t) = n /\ DOMAIN t = 1..n
      /\ \A i \in 1..n : t[i].event = "artifact.written" /\ t[i].payload = [path |-> written[i]]
  BY <1>0, WritesLog
<1>2. /\ IsLog(d) /\ Len(d) = 1 /\ d[1].event = "run.completed"
      /\ d[1].payload = [status |-> status, exit |-> ExitCode[status], cap |-> CapName,
                         released |-> released]
  <2>1. "run.completed" \in Events
    BY DEF Events
  <2> DEFINE p == [status |-> status, exit |-> ExitCode[status], cap |-> CapName,
                   released |-> released]
  <2>2. d = <<Entry("run.completed", p)>>
    BY DEF Done
  <2> HIDE DEF p
  <2>3. IsLog(<<Entry("run.completed", p)>>)
    BY <2>1, OneEntry
  <2>4. Len(d) = 1 /\ d[1] = Entry("run.completed", p)
    BY <2>2
  <2>5. d[1].event = "run.completed" /\ d[1].payload = p
    BY <2>4, IsEntry
  <2> HIDE DEF d
  <2> QED BY <2>2, <2>3, <2>4, <2>5 DEF p
<1> HIDE DEF t, d, n
<1>3. /\ m \in Nat /\ DOMAIN s = 1..m /\ DOMAIN u = 1..(m + n)
      /\ \A i \in 1..(m + n) : u[i] = IF i =< m THEN s[i] ELSE t[i - m]
  BY <1>1, Parts
<1>4. IsLog(u) /\ Len(u) = m + n
  BY <1>1, Joined
<1> HIDE DEF u
<1>5. log = u \o d
  BY DEF u, t, d, n
<1> HIDE DEF m
<1>6. /\ DOMAIN log = 1..((m + n) + 1)
      /\ \A i \in 1..((m + n) + 1) : log[i] = IF i =< m + n THEN u[i] ELSE d[i - (m + n)]
  <2>1. /\ DOMAIN (u \o d) = 1..(Len(u) + Len(d))
        /\ \A i \in 1..(Len(u) + Len(d)) :
            (u \o d)[i] = IF i =< Len(u) THEN u[i] ELSE d[i - Len(u)]
    BY <1>2, <1>4, Parts
  <2> QED BY <1>2, <1>4, <1>5, <2>1
<1>7. IsLog(log) /\ Len(log) = (m + n) + 1
  BY <1>2, <1>4, <1>5, Joined
<1>8. \A i \in 1..m : log[i] = s[i]
  BY <1>0, <1>3, <1>6
<1>9. ASSUME NEW i \in 1..n PROVE log[m + i] = t[i]
  <2>1. m + i \in 1..(m + n) /\ m + i \in 1..((m + n) + 1) /\ ~(m + i =< m) /\ (m + i) - m = i
        /\ m + i =< m + n
    BY <1>0, <1>3
  <2> QED BY <1>3, <1>6, <2>1
<1>10. log[(m + n) + 1] = d[1]
  <2>1. (m + n) + 1 \in 1..((m + n) + 1) /\ ~((m + n) + 1 =< m + n)
        /\ ((m + n) + 1) - (m + n) = 1
    BY <1>0, <1>3
  <2> QED BY <1>6, <2>1
<1>11. SubSeq(log, 1, m) = s
  <2> DEFINE R == Range(log)
             x == SubSeq(log, 1, m)
  <2>1. log \in Seq(R) /\ \A i \in 1..m : log[i] \in R
    <3>1. log \in Seq(R)
      BY <1>7 DEF IsLog
    <3>2. \A i \in DOMAIN log : log[i] \in R
      BY DEF Range
    <3>3. \A i \in 1..m : i \in DOMAIN log
      BY <1>0, <1>3, <1>6
    <3> QED BY <3>1, <3>2, <3>3
  <2>2. s \in Seq(R)
    <3>1. Range(s) \subseteq R
      BY <1>3, <1>6, <1>8, <1>0 DEF Range
    <3> HIDE DEF R
    <3> QED BY <3>1, SeqMonotonic DEF IsLog
  <2> HIDE DEF R
  <2>3. /\ x \in Seq(R) /\ Len(x) = IF 1 =< m THEN m - 1 + 1 ELSE 0
        /\ \A i \in 1..(m - 1 + 1) : x[i] = log[1 + i - 1]
    BY <1>3, <2>1, SubSeqProperties
  <2> HIDE DEF x
  <2>4. Len(x) = m /\ \A i \in 1..m : x[i] = s[i]
    BY <1>3, <1>8, <2>3
  <2>5. Len(s) = m
    BY DEF m
  <2>6. x = s
    BY <2>2, <2>3, <2>4, <2>5, SeqEqual
  <2> QED BY <2>6 DEF x
<1> QED BY <1>1, <1>2, <1>3, <1>6, <1>7, <1>8, <1>9, <1>10, <1>11, <1>0 DEF Closed, m, n

\* The records of what came before the artifacts.
LEMMA ClosedEarly ==
    ASSUME NEW s, Closed(s), NEW e, Rank(e) =< 15
    PROVE  Indices(log, e) = Indices(s, e) /\ Payloads(log, e) = Payloads(s, e)
<1>1. e # "artifact.written" /\ e # "run.completed"
  BY Ranks
<1>2. \A i \in DOMAIN log : log[i].event = e => i \in DOMAIN s
  <2> SUFFICES ASSUME NEW i \in DOMAIN log, log[i].event = e PROVE i \in DOMAIN s
    OBVIOUS
  <2>1. CASE i > Len(s) /\ i =< Len(s) + Len(written)
    <3>1. i - Len(s) \in 1..Len(written) /\ Len(s) + (i - Len(s)) = i
      BY <2>1 DEF Closed
    <3>2. log[i].event = "artifact.written"
      BY <3>1 DEF Closed
    <3> QED BY <1>1, <3>2
  <2>2. CASE i = Len(s) + Len(written) + 1
    BY <1>1, <2>2 DEF Closed
  <2> QED BY <2>1, <2>2 DEF Closed
<1>3. \A i \in DOMAIN s : i \in DOMAIN log /\ log[i] = s[i]
  BY DEF Closed
<1>4. Indices(log, e) = Indices(s, e)
  BY <1>2, <1>3 DEF Indices
<1>5. \A i \in Indices(s, e) : log[i].payload = s[i].payload
  BY <1>3 DEF Indices
<1> QED BY <1>4, <1>5 DEF Payloads

LEMMA ClosedLate ==
    ASSUME NEW s, Closed(s)
    PROVE  /\ Indices(log, "artifact.written") = (Len(s) + 1)..(Len(s) + Len(written))
           /\ Indices(log, "run.completed") = {Len(s) + Len(written) + 1}
           /\ \A e : Rank(e) = 16 /\ e \notin {"artifact.written", "run.completed"} =>
                        Indices(log, e) = {}
           /\ Prefix(log) = s /\ Preterminal(log) = Len(s) + 1
<1> DEFINE m == Len(s)
           n == Len(written)
<1>1. /\ m \in Nat /\ n \in Nat /\ n > 0 /\ DOMAIN log = 1..(m + n + 1) /\ Len(log) = m + n + 1
      /\ \A i \in 1..m : log[i] = s[i] /\ Rank(s[i].event) =< 15
      /\ \A i \in 1..n : log[m + i].event = "artifact.written"
      /\ log[m + n + 1].event = "run.completed" /\ SubSeq(log, 1, m) = s
  <2>1. /\ m \in Nat /\ n \in {4, 5} /\ DOMAIN s = 1..m
        /\ DOMAIN log = 1..(m + n + 1) /\ Len(log) = m + n + 1
        /\ \A i \in 1..m : log[i] = s[i]
        /\ \A i \in 1..n : log[m + i].event = "artifact.written"
        /\ log[m + n + 1].event = "run.completed" /\ SubSeq(log, 1, m) = s
    BY DEF Closed
  <2>2. \A i \in DOMAIN s : Rank(s[i].event) =< 15
    BY DEF Closed, Bounded
  <2> HIDE DEF m, n
  <2>3. \A i \in 1..m : Rank(s[i].event) =< 15
    BY <2>1, <2>2
  <2> QED BY <2>1, <2>3
<1> HIDE DEF m, n
<1>2. \A i \in 1..m : Rank(log[i].event) =< 15
  BY <1>1
<1>3. \A i \in (m + 1)..(m + n) : log[i].event = "artifact.written"
  <2> TAKE i \in (m + 1)..(m + n)
  <2>1. i - m \in 1..n /\ m + (i - m) = i
    BY <1>1
  <2> QED BY <1>1, <2>1
<1>4. \A i \in DOMAIN log : i \in 1..m \/ i \in (m + 1)..(m + n) \/ i = m + n + 1
  BY <1>1
<1>5. \A i \in 1..m : log[i].event \notin {"artifact.written", "run.completed"}
  BY <1>2, Ranks
<1>6. Indices(log, "artifact.written") = (m + 1)..(m + n)
  <2>1. \A i \in (m + 1)..(m + n) : i \in DOMAIN log
    BY <1>1
  <2> QED BY <1>1, <1>3, <1>4, <1>5, <2>1 DEF Indices
<1>7. Indices(log, "run.completed") = {m + n + 1}
  <2>1. m + n + 1 \in DOMAIN log
    BY <1>1
  <2> QED BY <1>1, <1>3, <1>4, <1>5, <2>1 DEF Indices
<1>8. ASSUME NEW e, Rank(e) = 16, e \notin {"artifact.written", "run.completed"}
      PROVE  Indices(log, e) = {}
  <2>1. \A i \in 1..m : log[i].event # e
    BY <1>2, <1>8
  <2> QED BY <1>1, <1>3, <1>4, <1>8, <2>1 DEF Indices
<1>9. Preterminal(log) = m + 1
  <2>1. m + 1 \in Nat /\ m + 1 \in 1..Len(log) /\ Len(log) \in Nat
    BY <1>1
  <2>2. \A i \in 1..Len(log) : log[i].event = "artifact.written" => i >= m + 1
    BY <1>1, <1>5
  <2>3. log[m + 1].event = "artifact.written"
    BY <1>1
  <2> QED BY <2>1, <2>2, <2>3, FirstWritten
<1>10. Prefix(log) = s
  <2>1. Preterminal(log) # 0 /\ Preterminal(log) - 1 = m
    BY <1>1, <1>9
  <2> QED BY <1>1, <2>1 DEF Prefix
<1> QED BY <1>6, <1>7, <1>8, <1>9, <1>10 DEF m, n

\* Of an event that is not a tool's there is at most one record, and the order is by rank.
LEMMA OnceOrdered ==
    ASSUME NEW s, IsLog(s), Ordered(s), NEW e, e \notin ToolEvents, Payloads(s, e) # {}
    PROVE  \E i \in DOMAIN s : /\ Indices(s, e) = {i} /\ s[i].event = e
                               /\ Payloads(s, e) = {s[i].payload}
<1>1. PICK i \in Indices(s, e) : TRUE
  BY DEF Payloads
<1>2. i \in DOMAIN s /\ s[i].event = e
  BY DEF Indices
<1>3. DOMAIN s \subseteq Nat
  <2>1. s \in Seq(Range(s))
    BY DEF IsLog
  <2>2. DOMAIN s = 1..Len(s)
    BY <2>1, LenProperties
  <2> QED BY <2>2
<1>4. ASSUME NEW j \in Indices(s, e) PROVE j = i
  <2>1. j \in DOMAIN s /\ s[j].event = e
    BY <1>4 DEF Indices
  <2>2. ~(i < j) /\ ~(j < i)
    <3>1. ~(Rank(e) < Rank(e))
      BY RankType
    <3> QED BY <1>2, <2>1, <3>1 DEF Ordered
  <2> QED BY <1>2, <1>3, <2>1, <2>2
<1>5. Indices(s, e) = {i}
  BY <1>4
<1> QED BY <1>2, <1>5 DEF Payloads

\* A sealed bundle and the records on which it rests.
Rests(s) ==
    /\ pc = "verify" /\ status # "FATAL" /\ AllThere /\ Closed(s) /\ Based(s)
    /\ required <=> profile # {}
    /\ written = ToWrite
    /\ \A n \in Range(written) : files[n] = ContentOver(s, n)

LEMMA SealedRests ==
    ASSUME IInv, KInv, pc = "verify", status # "FATAL"
    PROVE  \E s : Rests(s)
<1>1. pc \in Sealings
  BY DEF Sealings
<1>2. required <=> profile # {}
  BY <1>1, SealingBase
<1>3. written = ToWrite
  BY <1>1, SealingBase
<1>4. PICK s : /\ Based(s) /\ Bounded(s, 15) /\ Follows(s)
               /\ \A n \in Range(written) : files[n] = ContentOver(s, n)
  BY <1>1, SealingBase
<1>5. log = s \o Writes(Len(written)) \o <<Done>>
  BY <1>4 DEF Follows
<1>6. Len(written) \in {4, 5}
  BY <1>3, WritesRoot
<1>7. IsLog(s) /\ Ordered(s) /\ OneEach(s)
  BY <1>4 DEF Based
<1>8. Closed(s)
  BY <1>4, <1>5, <1>6, <1>7, ClosedLog
<1>9. AllThere
  BY DEF IInv, Whole
<1> QED BY <1>2, <1>3, <1>4, <1>8, <1>9 DEF Rests

LEMMA ManifestIs ==
    ASSUME NEW s, Rests(s)
    PROVE  /\ files[Manifest].status = status /\ files[Manifest].exit = ExitCode[status]
           /\ files[Manifest].audit = log
           /\ files[Manifest].artifacts = [n \in Range(written) |-> files[n]]
           /\ files[Manifest].outputs = [o \in OutputsOf(log) |-> outputs[o]]
<1>1. Lists
  BY DEF Rests, AllThere
<1> QED BY <1>1 DEF Lists, BuildManifest, Listed

\* The calls that have a start have a receipt, so that the outputs are those of the receipts.
LEMMA ToolsIn ==
    ASSUME IInv, NEW s, Rests(s)
    PROVE  /\ CallsOf(log, "tool.started") = CallsOf(log, "tool.completed")
           /\ DOMAIN outputs = OutputsOf(log) /\ \A o \in OutputsOf(log) : outputs[o] = o
<1>1. /\ Payloads(log, "tool.started") = Payloads(s, "tool.started")
      /\ Payloads(log, "tool.completed") = Payloads(s, "tool.completed")
  BY ClosedEarly, Ranks DEF Rests
<1>2. CallsOf(s, "tool.started") = CallsOf(s, "tool.completed")
  BY DEF Rests, Based
<1>3. CallsOf(log, "tool.started") = CallsOf(log, "tool.completed")
  BY <1>1, <1>2 DEF CallsOf
<1>4. /\ \A o \in DOMAIN outputs : outputs[o] = o
      /\ CallsOf(log, "tool.started") = CallsOf(log, "tool.completed") =>
            DOMAIN outputs = OutputsOf(log)
  BY DEF IInv, OutputsFit, Rests
<1> QED BY <1>3, <1>4

LEMMA SealedLists ==
    ASSUME IInv, NEW s, Rests(s)
    PROVE  /\ ManifestReadable(files) /\ ChecksumMatches(files)
           /\ ArtifactsMatch(files, outputs, files["manifest.json"])
           /\ AuditMatches(log, files["manifest.json"])
<1>1. /\ DOMAIN files = Range(written) \cup {Manifest, Detached}
      /\ files[Detached] = Checksum(files[Manifest])
  BY DEF Rests, AllThere
<1>2. files[Manifest] # Damaged
  BY <1>1 DEF IInv, OnDisk, Rests
<1>3. ManifestReadable(files) /\ ChecksumMatches(files)
  BY <1>1, <1>2 DEF ManifestReadable, ChecksumMatches, Manifest, Detached
<1>4. DOMAIN outputs = OutputsOf(log)
  BY ToolsIn
<1>5. ArtifactsMatch(files, outputs, files[Manifest])
  BY <1>1, <1>4, ManifestIs DEF ArtifactsMatch
<1>6. log # <<>>
  <2>1. Len(log) = Len(s) + Len(written) + 1 /\ Len(s) \in Nat /\ Len(written) \in {4, 5}
    BY DEF Rests, Closed
  <2> QED BY <2>1, EmptySeq
<1>7. AuditMatches(log, files[Manifest])
  BY <1>6, ManifestIs DEF AuditMatches
<1> QED BY <1>3, <1>5, <1>7 DEF Manifest

LEMMA SealedTerminal ==
    ASSUME IInv, NEW s, Rests(s)
    PROVE  /\ TerminalMatches(log, files["manifest.json"])
           /\ Last(log).payload = [status |-> status, exit |-> ExitCode[status],
                                   cap |-> CapName, released |-> released]
<1>1. Indices(log, "run.completed") = {Len(s) + Len(written) + 1}
  BY ClosedLate DEF Rests
<1>2. Once(log, "run.completed")
  BY <1>1, FS_Singleton DEF Once
<1>3. Last(log) = log[Len(s) + Len(written) + 1]
  BY DEF Last, Rests, Closed
<1>4. /\ Last(log).event = "run.completed"
      /\ Last(log).payload = [status |-> status, exit |-> ExitCode[status], cap |-> CapName,
                              released |-> released]
  BY <1>3 DEF Rests, Closed
<1>5. Last(log).payload.status = status /\ Last(log).payload.exit = ExitCode[status]
  BY <1>4
<1>6. TerminalMatches(log, files[Manifest])
  BY <1>2, <1>4, <1>5, ManifestIs DEF TerminalMatches
<1> QED BY <1>4, <1>6 DEF Manifest

LEMMA SealedTools ==
    ASSUME IInv, NEW s, Rests(s)
    PROVE  ToolsVerified(outputs, log, files["manifest.json"])
<1>1. /\ Indices(log, "tool.started") = Indices(s, "tool.started")
      /\ Indices(log, "tool.completed") = Indices(s, "tool.completed")
  BY ClosedEarly, Ranks DEF Rests
<1>2. Closed(s) /\ Ordered(s) /\ OneEach(s) /\ \A i \in DOMAIN s : log[i] = s[i]
  BY DEF Rests, Based, Closed
<1>3. ASSUME NEW event \in {"tool.started", "tool.completed"}, NEW call \in Calls
      PROVE  Cardinality({i \in Indices(log, event) : log[i].payload.call = call}) =< 1
  <2> DEFINE S == {i \in Indices(log, event) : log[i].payload.call = call}
  <2>1. \A i \in S : i \in DOMAIN s /\ s[i].event = event /\ s[i].payload.call = call
    BY <1>1, <1>2 DEF Indices
  <2>2. \A i, j \in S : i = j
    BY <1>2, <2>1 DEF OneEach, ToolEvents
  <2> HIDE DEF S
  <2>3. Cardinality(S) =< 1
    BY <2>2, AtMostOne
  <2> QED BY <2>3 DEF S
<1>4. ASSUME NEW i \in Indices(log, "tool.started"), NEW j \in Indices(log, "tool.completed"),
             log[i].payload.call = log[j].payload.call
      PROVE  i < j
  <2>1. i \in DOMAIN s /\ j \in DOMAIN s /\ s[i].event = "tool.started"
        /\ s[j].event = "tool.completed" /\ i \in Nat /\ j \in Nat
    BY <1>1, <1>2 DEF Indices, Closed
  <2>2. i # j /\ ~(j < i)
    BY <1>2, <2>1, Ranks DEF Ordered
  <2> QED BY <2>1, <2>2
<1>5. \A o \in OutputsOf(log) : o \in DOMAIN files[Manifest].outputs /\ outputs[o] = o
  BY ToolsIn, ManifestIs
<1>6. ToolsVerified(outputs, log, files[Manifest])
  BY <1>3, <1>4, <1>5, ToolsIn DEF ToolsVerified
<1> QED BY <1>6 DEF Manifest

LEMMA SealedCitations ==
    ASSUME NEW s, Rests(s), ~SharesSpan
    PROVE  CitationsVerified(WorkOf(log), Receipts(outputs, log))
<1>1. \A e \in {"tool.completed", "investigator.finished", "judge.completed"} :
        Payloads(log, e) = Payloads(s, e)
  BY ClosedEarly, Ranks DEF Rests
<1>2. Works(s)
  BY DEF Rests, Based
<1>3. Works(log)
  BY <1>1, <1>2, SameWork
<1>4. \A f \in WorkOf(log).findings : ~Shares(f)
  BY DEF SharesSpan, Shares
<1> QED BY <1>3, <1>4 DEF Works

LEMMA InCourse ==
    ASSUME NEW s, Rests(s), NEW d, NEW e, Rank(d) < Rank(e), Rank(e) =< 15,
           NEW i \in Indices(log, d), NEW j \in Indices(log, e)
    PROVE  i < j
<1>1. Rank(d) =< 15
  BY RankType
<1>2. Indices(log, d) = Indices(s, d) /\ Indices(log, e) = Indices(s, e)
  BY <1>1, ClosedEarly DEF Rests
<1>3. /\ i \in DOMAIN s /\ j \in DOMAIN s /\ s[i].event = d /\ s[j].event = e
      /\ i \in Nat /\ j \in Nat /\ Ordered(s)
  BY <1>2 DEF Indices, Rests, Closed
<1>4. i # j /\ ~(j < i)
  <2>1. d # e /\ ~(Rank(e) < Rank(d))
    BY RankType
  <2> QED BY <1>3, <2>1 DEF Ordered
<1> QED BY <1>3, <1>4

\* An event of the run itself that is on record is there once.
LEMMA OnRecord ==
    ASSUME NEW s, Rests(s), NEW e, e \notin ToolEvents, Rank(e) =< 15, Payloads(s, e) # {}
    PROVE  Once(log, e) /\ Cardinality(Indices(log, e)) = 1
<1>1. IsLog(s) /\ Ordered(s)
  BY DEF Rests, Closed
<1>2. PICK i \in DOMAIN s : Indices(s, e) = {i}
  BY <1>1, OnceOrdered
<1>3. Indices(log, e) = {i}
  BY <1>2, ClosedEarly DEF Rests
<1> QED BY <1>3, FS_Singleton DEF Once

LEMMA Custodies ==
    ASSUME IInv, NEW s, Rests(s)
    PROVE  /\ Payloads(log, "custody.initial.completed") = profile
           /\ Payloads(s, "custody.initial.completed") = profile
           /\ Payloads(log, "profile.completed") = profile
           /\ Payloads(s, "profile.completed") = profile
           /\ Payloads(s, "custody.final.completed") = Payloads(log, "custody.final.completed")
           /\ profile # {} =>
                /\ profile = {[hashes |-> baseline]}
                /\ Payloads(log, "custody.final.completed") =
                        {[hashes |-> baseline, released |-> TRUE]}
           /\ status = "COMPLETE" => profile # {}
<1>1. /\ Payloads(log, "custody.initial.completed") = Payloads(s, "custody.initial.completed")
      /\ Payloads(log, "profile.completed") = Payloads(s, "profile.completed")
      /\ Payloads(log, "custody.final.completed") = Payloads(s, "custody.final.completed")
  BY ClosedEarly, Ranks DEF Rests
<1>2. /\ Payloads(s, "custody.initial.completed") = profile
      /\ Payloads(s, "profile.completed") = profile
  BY DEF Rests, Based
<1>3. ASSUME profile # {}
      PROVE  /\ profile = {[hashes |-> baseline]}
             /\ Payloads(log, "custody.final.completed") =
                        {[hashes |-> baseline, released |-> TRUE]}
  <2>1. profile = {[hashes |-> baseline]}
    BY <1>3 DEF IInv, Shaped
  <2>2. required /\ status # "FATAL" /\ pc = "verify"
    BY <1>3 DEF Rests
  <2>3. FinalOf(log) = {[hashes |-> baseline, released |-> TRUE]}
    BY <2>2 DEF IInv, Rested
  <2> QED BY <2>1, <2>3 DEF FinalOf
<1>4. status = "COMPLETE" => profile # {}
  BY DEF IInv, Rested, Rests
<1> QED BY <1>1, <1>2, <1>3, <1>4

LEMMA SealedCustody ==
    ASSUME IInv, NEW s, Rests(s)
    PROVE  CustodyVerified(log, files["manifest.json"].status)
<1> DEFINE initial == Indices(log, "custody.initial.completed")
           final == Indices(log, "custody.final.completed")
<1>1. ASSUME status = "COMPLETE"
      PROVE  /\ Cardinality(initial) = 1 /\ Cardinality(final) = 1
             /\ ~Holds(log, "custody.mismatch") /\ ~Holds(log, "mount.release_failed")
  <2>1. profile # {}
    BY <1>1, Custodies
  <2>2. /\ Payloads(s, "custody.initial.completed") # {}
        /\ Payloads(s, "custody.final.completed") # {}
    BY <2>1, Custodies
  <2>3. Cardinality(initial) = 1 /\ Cardinality(final) = 1
    BY <2>2, OnRecord, Ranks DEF ToolEvents
  <2>4. Indices(log, "custody.mismatch") = {} /\ Indices(log, "mount.release_failed") = {}
    BY ClosedLate, Ranks DEF Rests
  <2> QED BY <2>3, <2>4 DEF Holds
<1>2. ASSUME NEW i \in initial, NEW f \in final
      PROVE  /\ log[f].payload.released /\ i < f
             /\ log[i].payload.hashes = log[f].payload.hashes
  <2>1. i < f
    BY <1>2, InCourse, Ranks
  <2>2. /\ log[i].payload \in Payloads(log, "custody.initial.completed")
        /\ log[f].payload \in Payloads(log, "custody.final.completed")
    BY DEF Payloads
  <2>3. /\ log[i].payload = [hashes |-> baseline]
        /\ log[f].payload = [hashes |-> baseline, released |-> TRUE]
    BY <2>2, Custodies
  <2> QED BY <2>1, <2>3
<1>3. CustodyVerified(log, status)
  BY <1>1, <1>2 DEF CustodyVerified
<1> QED BY <1>3, ManifestIs DEF Manifest

\* The files of the root.
LEMMA RootFiles ==
    ASSUME NEW s, Rests(s)
    PROVE  /\ {"report.md", "environment.json", "summary.json", "viewer.html"}
                \subseteq Range(written)
           /\ "profile.json" \in Range(written) <=> profile # {}
           /\ profile # {} => Range(written) = Names /\ written = RootArtifacts
           /\ DOMAIN files[Manifest].artifacts = Range(written)
           /\ \A n \in Range(written) : files[Manifest].artifacts[n] = ContentOver(s, n)
<1>1. written = ToWrite
  BY DEF Rests
<1>2. CASE profile # {}
  <2>1. written = RootArtifacts
    BY <1>1, <1>2 DEF ToWrite
  <2>2. Range(written) = Names
    BY <2>1, WritesRoot
  <2> QED BY <1>2, <2>1, <2>2, ManifestIs DEF Names, Rests
<1>3. CASE profile = {}
  <2>1. Range(written) = {"report.md", "environment.json", "summary.json", "viewer.html"}
    BY <1>1, <1>3 DEF ToWrite, Range
  <2> QED BY <1>3, <2>1, ManifestIs DEF Rests
<1> QED BY <1>2, <1>3

LEMMA SealedProfile ==
    ASSUME IInv, NEW s, Rests(s)
    PROVE  ProfileBound(log, files["manifest.json"], status = "COMPLETE")
<1> DEFINE artifacts == files[Manifest].artifacts
<1>1. CASE profile # {}
  <2>1. "profile.json" \in Range(written) /\ "profile.json" \in DOMAIN artifacts
    BY <1>1, RootFiles
  <2>2. artifacts["profile.json"] = CHOOSE p \in profile : TRUE
    <3>1. artifacts["profile.json"] = ContentOver(s, "profile.json")
      BY <2>1, RootFiles
    <3> QED BY <3>1 DEF ContentOver
  <2>3. profile = {[hashes |-> baseline]}
    BY <1>1, Custodies
  <2>4. artifacts["profile.json"] = [hashes |-> baseline]
    BY <2>2, <2>3
  <2>5. Once(log, "profile.completed")
    <3>1. Payloads(s, "profile.completed") # {}
      BY <1>1, Custodies
    <3> QED BY <3>1, OnRecord, Ranks DEF ToolEvents
  <2>6. /\ Payloads(log, "profile.completed") = {artifacts["profile.json"]}
        /\ \A p \in Payloads(log, "custody.initial.completed") :
                p.hashes = artifacts["profile.json"].hashes
    BY <2>3, <2>4, Custodies
  <2> QED BY <2>1, <2>5, <2>6 DEF ProfileBound, Manifest
<1>2. CASE profile = {}
  <2>1. "profile.json" \notin DOMAIN artifacts
    BY <1>2, RootFiles
  <2>2. Indices(log, "profile.completed") = {}
    <3>1. Payloads(log, "profile.completed") = {}
      BY <1>2, Custodies
    <3> QED BY <3>1 DEF Payloads
  <2>3. status # "COMPLETE"
    BY <1>2, Custodies
  <2> QED BY <2>1, <2>2, <2>3 DEF ProfileBound, Holds, Manifest
<1> QED BY <1>1, <1>2

\* The summary and the viewer are made from the records before the artifacts.
LEMMA SealedViewer ==
    ASSUME IInv, NEW s, Rests(s)
    PROVE  ViewerBound(log, files["manifest.json"])
<1> DEFINE artifacts == files[Manifest].artifacts
           summary == BuildSummary(s, status, CapName, released)
<1>1. Prefix(log) = s
  BY ClosedLate DEF Rests
<1>2. Last(log).payload.cap = CapName /\ Last(log).payload.released = released
  <2>1. Last(log).payload = [status |-> status, exit |-> ExitCode[status], cap |-> CapName,
                             released |-> released]
    BY SealedTerminal
  <2> QED BY <2>1
<1>3. {"summary.json", "report.md", "viewer.html"} \subseteq Range(written)
  BY RootFiles
<1>4. artifacts["summary.json"] = summary
  <2>1. artifacts["summary.json"] = ContentOver(s, "summary.json")
    BY <1>3, RootFiles
  <2> QED BY <2>1 DEF ContentOver
<1>5. artifacts["report.md"] = Report
  <2>1. artifacts["report.md"] = ContentOver(s, "report.md")
    BY <1>3, RootFiles
  <2> QED BY <2>1 DEF ContentOver
<1>6. artifacts["viewer.html"] = RenderViewer(s, status, summary, Report)
  <2>1. artifacts["viewer.html"] = ContentOver(s, "viewer.html")
    BY <1>3, RootFiles
  <2> QED BY <2>1 DEF ContentOver
<1>7. {"summary.json", "report.md"} \subseteq DOMAIN artifacts
  BY <1>3, RootFiles
<1>8. files[Manifest].status = status
  BY ManifestIs
<1> HIDE DEF summary, artifacts
<1>9. ViewerBound(log, files[Manifest])
  BY <1>1, <1>2, <1>4, <1>5, <1>6, <1>7, <1>8 DEF ViewerBound, summary, artifacts
<1> QED BY <1>9 DEF Manifest

LEMMA Required ==
    /\ DOMAIN RequiredEvents = 1..10 /\ RequiredEvents[10] = "run.completed"
    /\ \A i \in 1..9 :
        /\ RequiredEvents[i] \in AgentEvents \cup {"custody.initial.completed",
                "profile.completed", "custody.final.completed"}
        /\ RequiredEvents[i] \notin ToolEvents /\ Rank(RequiredEvents[i]) =< 15
    /\ \A i, j \in 1..9 : i < j => Rank(RequiredEvents[i]) < Rank(RequiredEvents[j])
<1> DEFINE R == RequiredEvents
<1>1. /\ DOMAIN R = 1..10
      /\ R[1] = "run.created" /\ R[2] = "caps.configured"
      /\ R[3] = "custody.initial.completed" /\ R[4] = "profile.completed"
      /\ R[5] = "investigation.started" /\ R[6] = "investigator.finished"
      /\ R[7] = "judge.completed" /\ R[8] = "investigation.completed"
      /\ R[9] = "custody.final.completed" /\ R[10] = "run.completed"
  BY DEF RequiredEvents
<1> HIDE DEF R
<1>2. /\ Rank(R[1]) = 1 /\ Rank(R[2]) = 2 /\ Rank(R[3]) = 4 /\ Rank(R[4]) = 5
      /\ Rank(R[5]) = 6 /\ Rank(R[6]) = 9 /\ Rank(R[7]) = 10 /\ Rank(R[8]) = 12
      /\ Rank(R[9]) = 15
  BY <1>1, Ranks
<1>3. \A i, j \in 1..9 : i < j => Rank(R[i]) < Rank(R[j])
  BY <1>2
<1>4. \A i \in 1..9 : Rank(R[i]) =< 15
  BY <1>2
<1>5. \A i \in 1..9 : R[i] \in AgentEvents \cup {"custody.initial.completed",
            "profile.completed", "custody.final.completed"} /\ R[i] \notin ToolEvents
  BY <1>1 DEF AgentEvents, ToolEvents
<1> QED BY <1>1, <1>3, <1>4, <1>5 DEF R

LEMMA SealedWrites ==
    ASSUME IInv, NEW s, Rests(s), status = "COMPLETE"
    PROVE  WritesVerified(log)
<1>1. profile # {}
  BY Custodies
<1>2. written = RootArtifacts
  BY <1>1, RootFiles
<1>3. Len(written) = 5 /\ Len(RootArtifacts) = 5 /\ DOMAIN RootArtifacts = 1..5
  BY <1>2 DEF RootArtifacts
<1>4. Preterminal(log) = Len(s) + 1
  BY ClosedLate DEF Rests
<1>5. /\ Len(s) \in Nat /\ DOMAIN s = 1..Len(s) /\ Ordered(s) /\ Bounded(s, 15)
      /\ Len(log) = Len(s) + 5 + 1
      /\ \A i \in 1..Len(s) : log[i] = s[i]
      /\ \A i \in 1..5 : /\ log[Len(s) + i].event = "artifact.written"
                         /\ log[Len(s) + i].payload = [path |-> written[i]]
  BY <1>3 DEF Rests, Closed
<1>6. Cardinality(Indices(log, "artifact.written")) = 5
  <2>1. Indices(log, "artifact.written") = (Len(s) + 1)..(Len(s) + 5)
    BY <1>3, ClosedLate DEF Rests
  <2>2. Len(s) + 1 \in Int /\ Len(s) + 5 \in Int
    BY <1>5
  <2>3. Cardinality((Len(s) + 1)..(Len(s) + 5)) =
            IF Len(s) + 1 > Len(s) + 5 THEN 0 ELSE (Len(s) + 5) - (Len(s) + 1) + 1
    BY <2>2, FS_Interval
  <2> QED BY <1>5, <2>1, <2>3
\* The last record before the artifacts is of the final check, whose rank is the highest.
<1>7. Len(s) >= 1 /\ log[Len(s)].event = "custody.final.completed"
  <2>1. Payloads(s, "custody.final.completed") # {}
    BY <1>1, Custodies
  <2>2. PICK i \in DOMAIN s : s[i].event = "custody.final.completed"
    BY <2>1 DEF Payloads, Indices
  <2>3. i \in Nat /\ 1 =< i /\ i =< Len(s)
    BY <1>5, <2>2
  <2>4. i = Len(s)
    <3>1. SUFFICES ASSUME i < Len(s) PROVE FALSE
      BY <1>5, <2>3
    <3>2. Len(s) \in DOMAIN s
      BY <1>5, <2>3
    <3>3. Rank(s[i].event) = 15 /\ s[i].event \notin ToolEvents
      BY <2>2, Ranks DEF ToolEvents
    <3>4. Rank(s[i].event) < Rank(s[Len(s)].event)
      BY <1>5, <2>2, <3>1, <3>2, <3>3 DEF Ordered
    <3>5. Rank(s[Len(s)].event) =< 15
      BY <1>5, <3>2 DEF Bounded
    <3>6. Rank(s[Len(s)].event) \in Int
      BY RankType
    <3> QED BY <3>3, <3>4, <3>5, <3>6
  <2> QED BY <1>5, <2>2, <2>3, <2>4
<1>8. ASSUME NEW i \in 1..5
      PROVE  /\ log[Preterminal(log) + i - 1].event = "artifact.written"
             /\ log[Preterminal(log) + i - 1].payload.path = RootArtifacts[i]
  <2>1. Preterminal(log) + i - 1 = Len(s) + i
    BY <1>4, <1>5
  <2>2. log[Len(s) + i].payload = [path |-> written[i]]
    BY <1>5
  <2>3. log[Len(s) + i].payload.path = RootArtifacts[i]
    BY <1>2, <2>2
  <2> QED BY <1>5, <2>1, <2>3
<1>9. Preterminal(log) > 1 /\ Preterminal(log) + 5 = Len(log) /\ Preterminal(log) - 1 = Len(s)
  BY <1>4, <1>5, <1>7
<1> QED BY <1>3, <1>6, <1>7, <1>8, <1>9 DEF WritesVerified

LEMMA SealedLifecycle ==
    ASSUME IInv, NEW s, Rests(s), status = "COMPLETE"
    PROVE  LifecycleVerified(log, files["manifest.json"])
<1> DEFINE last == Len(s) + Len(written) + 1
<1>1. profile # {}
  BY Custodies
<1>2. Range(RootArtifacts) \subseteq DOMAIN files[Manifest].artifacts
  BY <1>1, RootFiles, WritesRoot
<1>3. /\ \A e \in AgentEvents : Payloads(s, e) # {}
      /\ Payloads(s, "cap.fired") = {} /\ Payloads(s, "run.preflight_failed") = {}
      /\ \A p \in Payloads(s, "tool.completed") : p.status \notin {"capped", "rejected"}
  BY DEF Rests, Based, Completes
<1>4. Indices(log, "run.completed") = {last}
  BY ClosedLate DEF Rests
<1>5. \A i \in DOMAIN RequiredEvents : Once(log, RequiredEvents[i])
  <2>1. ASSUME NEW i \in 1..9 PROVE Once(log, RequiredEvents[i])
    <3>1. Payloads(s, RequiredEvents[i]) # {}
      BY <1>1, <1>3, Required, Custodies
    <3>2. RequiredEvents[i] \notin ToolEvents /\ Rank(RequiredEvents[i]) =< 15
      BY Required
    <3> QED BY <3>1, <3>2, OnRecord
  <2>2. Once(log, "run.completed")
    BY <1>4, FS_Singleton DEF Once
  <2> QED BY <2>1, <2>2, Required
<1>6. ASSUME NEW i \in 1..10, NEW j \in 1..10, i < j,
             NEW a \in Indices(log, RequiredEvents[i]), NEW b \in Indices(log, RequiredEvents[j])
      PROVE  a < b
  <2>0. i \in 1..9
    BY <1>6
  <2>1. CASE j \in 1..9
    <3>1. /\ Rank(RequiredEvents[i]) < Rank(RequiredEvents[j])
          /\ Rank(RequiredEvents[j]) =< 15
      BY <1>6, <2>0, <2>1, Required
    <3> QED BY <3>1, InCourse
  <2>2. CASE j = 10
    <3>1. b = last
      BY <1>4, <2>2, Required
    <3>2. Rank(RequiredEvents[i]) =< 15
      BY <2>0, Required
    <3>3. Indices(log, RequiredEvents[i]) = Indices(s, RequiredEvents[i])
      BY <3>2, ClosedEarly DEF Rests
    <3>4. a \in 1..Len(s) /\ Len(s) \in Nat /\ Len(written) \in {4, 5}
      BY <3>3 DEF Indices, Rests, Closed
    <3> QED BY <3>1, <3>4
  <2> QED BY <1>6, <2>1, <2>2
<1>7. \A e \in FailureEvents : ~Holds(log, e)
  <2>1. Indices(log, "cap.fired") = {} /\ Indices(log, "run.preflight_failed") = {}
    <3>1. /\ Payloads(log, "cap.fired") = {} /\ Payloads(log, "run.preflight_failed") = {}
      BY <1>3, ClosedEarly, Ranks DEF Rests
    <3> QED BY <3>1 DEF Payloads
  <2>2. \A e \in FailureEvents \ {"cap.fired", "run.preflight_failed"} : Indices(log, e) = {}
    BY ClosedLate, Ranks DEF Rests, FailureEvents
  <2> QED BY <2>1, <2>2 DEF Holds
<1>8. \A p \in Payloads(log, "tool.completed") : p.status \notin {"capped", "rejected"}
  BY <1>3, ClosedEarly, Ranks DEF Rests
<1>9. WritesVerified(log)
  BY SealedWrites
<1>10. files[Manifest].status = "COMPLETE"
  BY ManifestIs
<1>11. \A i, j \in DOMAIN RequiredEvents : i < j =>
        \A a \in Indices(log, RequiredEvents[i]), b \in Indices(log, RequiredEvents[j]) : a < b
  BY <1>6, Required
<1>12. LifecycleVerified(log, files[Manifest])
  BY <1>2, <1>5, <1>7, <1>8, <1>9, <1>10, <1>11 DEF LifecycleVerified
<1> QED BY <1>12 DEF Manifest

\* What a run that is not FATAL has sealed verifies, strictly when it is COMPLETE, for any
\* calls, outputs and texts and any number of faults, unless two spans share an id.
THEOREM SealedVerify == Spec => []SealedVerifies
<1>1. IInv /\ KInv => SealedVerifies
  <2> SUFFICES ASSUME IInv, KInv, pc = "verify", status # "FATAL", ~SharesSpan
               PROVE  Verified(files, outputs, log, status = "COMPLETE")
    BY DEF SealedVerifies
  <2>1. PICK s : Rests(s)
    BY SealedRests
  <2>2. /\ ManifestReadable(files) /\ ChecksumMatches(files)
        /\ ArtifactsMatch(files, outputs, files["manifest.json"])
        /\ AuditMatches(log, files["manifest.json"])
    BY <2>1, SealedLists
  <2>3. TerminalMatches(log, files["manifest.json"])
    BY <2>1, SealedTerminal
  <2>4. ToolsVerified(outputs, log, files["manifest.json"])
    BY <2>1, SealedTools
  <2>5. CitationsVerified(WorkOf(log), Receipts(outputs, log))
    BY <2>1, SealedCitations
  <2>6. CustodyVerified(log, files["manifest.json"].status)
    BY <2>1, SealedCustody
  <2>7. ProfileBound(log, files["manifest.json"], status = "COMPLETE")
    BY <2>1, SealedProfile
  <2>8. status = "COMPLETE" => LifecycleVerified(log, files["manifest.json"])
    BY <2>1, SealedLifecycle
  <2>9. ViewerBound(log, files["manifest.json"])
    BY <2>1, SealedViewer
  <2> QED BY <2>2, <2>3, <2>4, <2>5, <2>6, <2>7, <2>8, <2>9 DEF Verified
<1> QED BY <1>1, Inductive, KInductive, PTL

===============================================================================
