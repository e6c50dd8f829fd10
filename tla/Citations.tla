------------------------------- MODULE Citations -------------------------------
(* Exact evidence.  agent.py resolves the quotes of a finding to byte ranges of the
   retained tool outputs and admits a verdict that quotes those ranges; verify.py, from
   the bundle alone, resolves them again.  An output stands for its own SHA-256, and a
   span id is the triple that the code hashes.  One finding and one verdict: what holds
   between findings is in Investigation.  Texts are sequences of bytes; the inline
   citations and the length limit of a quote, which both sides read the same way, are
   left out. *)
EXTENDS Naturals, Sequences, FiniteSets, Functions

CONSTANTS
    Calls,             \* tool call ids
    MaxQuotes,         \* supporting quotes of a finding, 12 in the code
    MaxQuotesPerCall   \* of one call, 4 in the code

ASSUME CitationsAssumption == MaxQuotes \in Nat /\ MaxQuotesPerCall \in Nat

Offsets(text, output) ==
    {i \in 0..(Len(output) - Len(text)) : SubSeq(output, i + 1, i + Len(text)) = text}

\* bytes.count: from the left, without overlap.
Occurrences(text, output) ==
    LET from[i \in 0..(Len(output) + Len(text))] ==
            IF i > Len(output) - Len(text) THEN 0
            ELSE IF i \in Offsets(text, output) THEN 1 + from[i + Len(text)]
            ELSE from[i + 1]
    IN  from[0]

Within(text, whole) == Offsets(text, whole) # {}
SpanId(output, first, last) == <<output, first, last>>
OfCall(items, call) == {i \in DOMAIN items : items[i].call = call}
Succeeding(cites, receipts) == \E c \in cites : receipts[c].status = "success"

-------------------------------------------------------------------------------
\* The agent.

\* The first occurrence of a quote, as bytes.find has it.
SpanOf(quote, receipts) ==
    LET output == receipts[quote.call].output
        first == CHOOSE i \in Offsets(quote.text, output) :
                    \A j \in Offsets(quote.text, output) : i =< j
    IN  [id |-> SpanId(output, first, first + Len(quote.text)), call |-> quote.call,
         artifact |-> output, first |-> first, last |-> first + Len(quote.text),
         text |-> quote.text, count |-> Occurrences(quote.text, output)]

\* _resolve_supporting_spans: quotes, distinct as pairs of call and text, of cited calls,
\* found in their outputs, and at least one for every cited call.
Resolvable(quotes, cites, receipts) ==
    /\ Len(quotes) =< MaxQuotes /\ IsInjective(quotes)
    /\ \A i \in DOMAIN quotes :
        /\ quotes[i].call \in cites \cap DOMAIN receipts
        /\ quotes[i].text # <<>> /\ Within(quotes[i].text, receipts[quotes[i].call].output)
    /\ \A c \in cites : Cardinality(OfCall(quotes, c)) \in 1..MaxQuotesPerCall

Resolved(quotes, receipts) == [i \in DOMAIN quotes |-> SpanOf(quotes[i], receipts)]

\* _parse_investigation for one finding.
FindingAccepted(status, cites, quotes, receipts) ==
    /\ Resolvable(quotes, cites, receipts)
    /\ cites # {} /\ cites \subseteq DOMAIN receipts
    /\ status = "CONFIRMED" => Succeeding(cites, receipts)

\* spans_by_id: of two spans with one id the later stays.
SpanById(spans, id) ==
    LET same == {i \in DOMAIN spans : spans[i].id = id}
    IN  spans[CHOOSE i \in same : \A j \in same : i >= j]

\* Mutant: a judge may quote anything the output holds.
QuotedAnywhere(quote, span) == quote.text # <<>> /\ Within(quote.text, span.artifact)

\* A judge quotes from the span, not from the output.
Quoted(quote, span) == quote.text # <<>> /\ Within(quote.text, span.text)

\* A quote of a verdict: from a span of the finding that is of a call the verdict cites.
QuoteResolves(quote, cites, finding) ==
    /\ \E i \in DOMAIN finding.spans : finding.spans[i].id = quote.id
    /\ quote.call \in cites
    /\ LET span == SpanById(finding.spans, quote.id)
       IN  span.call = quote.call /\ Quoted(quote, span)

\* _parse_verdicts for one verdict, its status no longer above the finding's.
VerdictAccepted(status, cites, quotes, finding, receipts) ==
    /\ cites # {} /\ cites \subseteq finding.cites \cap DOMAIN receipts
    /\ IsInjective(quotes)
    /\ \A i \in DOMAIN quotes : QuoteResolves(quotes[i], cites, finding)
    /\ \A c \in cites : OfCall(quotes, c) # {}
    /\ status = "CONFIRMED" => Succeeding(cites, receipts)

-------------------------------------------------------------------------------
\* The verifier, which has the outputs as they are on disk.

\* _verify_supporting_spans; a second span of the same id is an error.
SpansVerified(finding, receipts) ==
    LET spans == finding.spans
    IN  /\ Len(spans) =< MaxQuotes
        /\ \A i, j \in DOMAIN spans : spans[i].id = spans[j].id => i = j
        /\ \A i \in DOMAIN spans :
            LET s == spans[i]
            IN  /\ s.call \in finding.cites \cap DOMAIN receipts
                /\ s.first < s.last /\ s.last - s.first = Len(s.text)
                /\ s.artifact = receipts[s.call].output
                /\ s.id = SpanId(s.artifact, s.first, s.last)
                /\ SubSeq(receipts[s.call].output, s.first + 1, s.last) = s.text
                /\ s.count = Occurrences(s.text, receipts[s.call].output)
        /\ \A c \in finding.cites : Cardinality(OfCall(spans, c)) \in 1..MaxQuotesPerCall

\* _verify_quotes, for a finding that has spans.
QuotesVerified(verdict, finding, receipts) ==
    /\ IsInjective(verdict.quotes)
    /\ \A i \in DOMAIN verdict.quotes :
        LET q == verdict.quotes[i]
        IN  /\ q.text # <<>> /\ q.call \in verdict.cites \cap DOMAIN receipts
            /\ \E j \in DOMAIN finding.spans :
                LET s == finding.spans[j]
                IN  s.id = q.id /\ s.call = q.call /\ Within(q.text, s.text)
            /\ Within(q.text, receipts[q.call].output)
    /\ \A c \in verdict.cites : OfCall(verdict.quotes, c) # {}

\* _verify_citations; there is a verdict for the finding or none yet.
CitationsVerified(work, receipts) ==
    /\ \A f \in work.findings :
        /\ f.cites # {} /\ f.cites \subseteq DOMAIN receipts
        /\ f.status = "CONFIRMED" => Succeeding(f.cites, receipts)
        /\ SpansVerified(f, receipts)
    /\ \A v \in work.verdicts : \E f \in work.findings :
        /\ v.cites # {} /\ v.cites \subseteq f.cites
        /\ v.status = "CONFIRMED" => f.status = "CONFIRMED" /\ Succeeding(v.cites, receipts)
        /\ QuotesVerified(v, f, receipts)

===============================================================================
