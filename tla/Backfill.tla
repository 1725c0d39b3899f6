---- MODULE Backfill ----
(***************************************************************************)
(* BackfillService beside the live writers, over one CandleStore.  A round *)
(* reads the store, computes the gaps and then asks the provider for one   *)
(* gap after another; between the question and the patch live candles are  *)
(* appended.  Which writers a store has is settled when the process is     *)
(* wired: CandleBuilder, whose time stamps are in CANONICAL_TZ, beside     *)
(* every BackfillService; the Ostium ingest, whose time stamps are in UTC, *)
(* alone in a realtime data layer, with it in a monolith.  Symbols are     *)
(* treated one after another and have nothing in common: the module        *)
(* follows one.                                                            *)
(***************************************************************************)
EXTENDS CandleStore

CONSTANTS
  Window,      \* corrective_window_minutes
  NoRound

ASSUME WindowAssumption == Window \in Nat

VARIABLES
  now,      \* the clock, in minutes
  writers,  \* the live writers of the store, "builder" and "ingest"
  service,  \* "off", "first" (start runs the first round), "loop", "deaf"
  round     \* the round: [start, end, gaps, whole], or NoRound

vars == <<files, now, writers, service, round>>

-----------------------------------------------------------------------------
(* The live writers *)

Zone(writer) == IF writer = "builder" THEN Canonical ELSE UTC

Tick == now < Horizon /\ now' = now + 1 /\ UNCHANGED <<files, writers, service, round>>

\* A minute that is over: which one, and how late after a failed append, is the
\* business of LiveMarketData and CandleIngest.
LiveAppend(writer, m) ==
  /\ writer \in writers /\ m < now
  /\ AppendCandle(Zone(writer), m)
  /\ UNCHANGED <<now, writers, service, round>>

-----------------------------------------------------------------------------
(* BackfillService *)

\* Only where market data are served, and so CandleBuilder writes.  If the
\* provider is not available the service counts as running, but there is no
\* loop, and a later start has no effect.
Start ==
  /\ service = "off" /\ "builder" \in writers
  /\ service' \in {"first", "deaf"}
  /\ UNCHANGED <<files, now, writers, round>>

Stop ==
  /\ service \in {"loop", "deaf"}
  /\ service' = "off" /\ round' = NoRound
  /\ UNCHANGED <<files, now, writers>>

\* The end of start(): the task of the loop is created.
Started ==
  /\ service = "first" /\ round = NoRound
  /\ service' = "loop"
  /\ UNCHANGED <<files, now, writers, round>>

From == IF LastTimestamp(now) > Window THEN LastTimestamp(now) - Window ELSE 0

Gaps(start) ==
  IF MissingCount(ReadRange(UTC, start, now), start, now) = 0 THEN {}
  ELSE FindGaps(ReadRange(UTC, start, now), start, now)

\* backfill_symbol up to its first await; without any data it is skipped.
Begin ==
  /\ service \in {"first", "loop"} /\ round = NoRound
  /\ LastTimestamp(now) # -1
  /\ round' = [start |-> From, end |-> now, gaps |-> Gaps(From), whole |-> TRUE]
  /\ UNCHANGED <<files, now, writers, service>>

NextGap == CHOOSE g \in round.gaps : \A h \in round.gaps : g.start <= h.start

\* What the provider returns for the next gap is patched as it is: in part, or
\* beyond the gap.  An error after a part was patched is an answer in part.
Fill(answer) ==
  /\ round # NoRound /\ round.gaps # {}
  /\ answer # {}
  /\ Patch(UTC, answer)
  /\ round' = [round EXCEPT !.gaps = @ \ {NextGap},
                            !.whole = @ /\ Span(NextGap) \subseteq answer]
  /\ UNCHANGED <<now, writers, service>>

\* No data, or an error: the round goes on with the next gap.
SkipGap ==
  /\ round # NoRound /\ round.gaps # {}
  /\ round' = [round EXCEPT !.gaps = @ \ {NextGap}, !.whole = FALSE]
  /\ UNCHANGED <<files, now, writers, service>>

End ==
  /\ round # NoRound /\ round.gaps = {}
  /\ round' = NoRound
  /\ UNCHANGED <<files, now, writers, service>>

Init ==
  /\ files = [k \in Months |-> {}]
  /\ writers \in {{"builder"}, {"ingest"}, {"builder", "ingest"}}
  /\ now = 0 /\ service = "off" /\ round = NoRound

Next ==
  \/ Tick \/ (\E writer \in {"builder", "ingest"}, m \in Minutes : LiveAppend(writer, m))
  \/ Start \/ Stop \/ Started
  \/ Begin \/ SkipGap \/ End \/ (\E answer \in SUBSET Minutes : Fill(answer))

Spec == Init /\ [][Next]_vars

-----------------------------------------------------------------------------
(* Properties *)

\* Type invariant.  A candle is in the file of its month by the time stamp of
\* one of its writers, and of UTC alone where the builder does not write; a gap
\* of a round is inside its range and not empty; rounds run only where the
\* builder does.
TypeOK ==
  /\ files \in [Months -> SUBSET Minutes]
  /\ \A k \in Months : \A m \in files[k] :
       k = Month(UTC, m) \/ (k = Month(Canonical, m) /\ "builder" \in writers)
  /\ now \in 0 .. Horizon /\ writers \in SUBSET {"builder", "ingest"}
  /\ service \in {"off", "first", "loop", "deaf"}
  /\ service # "off" => "builder" \in writers
  /\ round # NoRound =>
       /\ service \in {"first", "loop"}
       /\ round.start \in 0 .. Horizon /\ round.end \in 0 .. now /\ round.whole \in BOOLEAN
       /\ \A g \in round.gaps : round.start <= g.start /\ g.start < g.end /\ g.end <= round.end

\* Two files have the same minute of the range: one has it from the builder, the
\* other from a writer whose time stamps are in UTC.
Twice(start, end) ==
  \E j, k \in Months : j # k /\ files[j] \cap files[k] \cap start .. end - 1 # {}

\* A round to which the provider has answered in full leaves no minute of its
\* range missing, although the store has changed since its gaps were computed
\* and the two writers and the round itself file the minutes of a seam under
\* different months; unless a minute in two files made up for a missing one in
\* the count by which a range is complete (backfill_service.py:172-208,
\* candle.py:143-158).
RoundFills ==
  round # NoRound /\ round.whole /\ ~Twice(round.start, round.end) =>
    round.start .. round.end - 1
      \subseteq Stored \cup UNION {Span(g) : g \in round.gaps}
====
