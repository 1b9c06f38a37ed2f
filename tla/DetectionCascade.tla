--------------------------- MODULE DetectionCascade ---------------------------
(***************************************************************************)
(* One look-up of an amenity string: the string is split into segments,    *)
(* each segment is matched against the approved keywords on three tracks,  *)
(* and the best of the hits decides the format.  Three engines do it their *)
(* own way: detection/engine.py (domestic, with the rules of circuits),    *)
(* movie_detection/engine.py and intl_detection/engine.py.                 *)
(*                                                                         *)
(* A phrase is a sequence of words, a word a sequence of letters; hyphen   *)
(* says that the words are joined by hyphens, sign that it carries a trade *)
(* mark: what the forms of detection/normalizer.py tell apart once case,   *)
(* accents and white space are folded.                                     *)
(***************************************************************************)
EXTENDS Enumeration, FiniteSetsExt, SequencesExt

CONSTANTS
  Indexes,    \* engine -> the lists of approved mappings, in priority order
  Strings,    \* the amenity strings, as sequences of phrases
  Ignored,    \* phrases that say nothing (_IGNORE_TOKENS)
  Stopword,   \* a word track B drops
  VipWord,    \* "vip"
  MinLen,     \* settings.TRACK_C_MIN_LEN
  CircuitOf   \* circuit names of a request -> their circuits (CircuitAlias)

VARIABLE scan

Phrases == [words : Seq(Seq(STRING)), hyphen : BOOLEAN, sign : BOOLEAN]
Mappings == [keyword : Phrases, tier : Nat, circuit : STRING, na : STRING, format : STRING]

CascadeAssumption ==
  /\ DOMAIN Indexes \subseteq {"domestic", "movie", "intl"}
  /\ \A engine \in DOMAIN Indexes : \A index \in Indexes[engine] :
       /\ index \in Seq(Mappings)
       /\ \A m, n \in DOMAIN index : m < n => index[m].tier <= index[n].tier
  /\ Strings \subseteq Seq(Phrases)

NoCircuit == ""
Imax == "imax"
VipHouse == "vip"     \* a circuit of _VIP_CIRCUITS
MostUrgentTier == 1   \* _IMAX_P1_THRESHOLD

NoHit == [mapping |-> 0, track |-> "none", pos |-> 0]

-----------------------------------------------------------------------------
(* The forms of a phrase and the index over them.                          *)

TrackA(phrase) == [words |-> phrase.words, hyphen |-> phrase.hyphen]
TrackB(phrase) == SelectSeq(phrase.words, LAMBDA w : w # Stopword)
TrackC(phrase) == Range(phrase.words)
ConcatForm(phrase) == FlattenSeq(phrase.words)

\* Mappings whose form is equal: the table of the form keeps one of them, the
\* last in the order of priority, except in the international engine.
MappingIndex(same) == Max(same)
MovieFormatMappingIndex(same) == Max(same)

\* Mutant: the international tables filled like the two others.
IntlLastWins(same) == Max(same)

IntlMappingIndex(same) == Min(same)

With(index, Fits(_)) == {m \in DOMAIN index : Fits(index[m].keyword)}

Found(same, Slot(_), track, pos) ==
  IF same = {} THEN NoHit ELSE [mapping |-> Slot(same), track |-> track, pos |-> pos]

OrElse(hit, other) == IF hit = NoHit THEN other ELSE hit

\* Tracks A and B: a table each.
ExactTracks(index, phrase, pos, Slot(_)) ==
  OrElse(Found(With(index, LAMBDA k : TrackA(k) = TrackA(phrase)), Slot, "A", pos),
         Found(With(index, LAMBDA k : TrackB(k) = TrackB(phrase)), Slot, "B", pos))

\* Track C, first check: equal once the words are written together.
ConcatExact(index, phrase, pos) ==
  Found(With(index, LAMBDA k : ConcatForm(k) = ConcatForm(phrase)), Min, "C", pos)

\* Track C, last check: all the words of the keyword, or the keyword as a
\* prefix.
Loose(keyword, phrase) ==
  \/ TrackC(keyword) \subseteq TrackC(phrase)
  \/ /\ Len(ConcatForm(keyword)) >= MinLen
     /\ IsPrefix(ConcatForm(keyword), ConcatForm(phrase))

LooseTrack(index, phrase, pos) == Found(With(index, LAMBDA k : Loose(k, phrase)), Min, "C", pos)

MatchSegment(index, phrase, pos) ==
  OrElse(ExactTracks(index, phrase, pos, MappingIndex), LooseTrack(index, phrase, pos))

MatchMovieSegment(index, phrase, pos) ==
  OrElse(ExactTracks(index, phrase, pos, MovieFormatMappingIndex),
         OrElse(ConcatExact(index, phrase, pos), LooseTrack(index, phrase, pos)))

MatchIntlSegment(index, phrase, pos) ==
  OrElse(ExactTracks(index, phrase, pos, IntlMappingIndex),
         OrElse(ConcatExact(index, phrase, pos), LooseTrack(index, phrase, pos)))

-----------------------------------------------------------------------------
(* The scan.                                                               *)

NoResult == [format |-> "", source |-> "", ai |-> FALSE]

ScanInit ==
  \E engine \in DOMAIN Indexes :
    \E index \in Indexes[engine], amenity \in Strings,
       name \in (IF engine = "domestic" THEN DOMAIN CircuitOf ELSE {NoCircuit}) :
      scan = [engine |-> engine, index |-> index, circuit |-> CircuitOf[name], amenity |-> amenity,
              phase |-> "begin", pos |-> 1, best |-> NoHit, result |-> NoResult]

Tier(m) == scan.index[m].tier
Scoped(m) == scan.index[m].circuit # NoCircuit
Own(m) == Scoped(m) /\ scan.index[m].circuit = scan.circuit

\* What is left of the string once the phrases that say nothing are dropped.
Segments ==
  LET kept == InOrder({n \in DOMAIN scan.amenity : scan.amenity[n] \notin Ignored})
  IN [n \in DOMAIN kept |-> scan.amenity[kept[n]]]

Answer(format, source, ai) ==
  scan' = [scan EXCEPT !.phase = "done", !.result = [format |-> format, source |-> source, ai |-> ai]]

\* Layer 1, the next segment: a hit replaces the best so far.  Positions only
\* grow, so the earlier segment keeps every tie that is left.
LookAt(engine, Match(_, _, _), Displaces(_, _)) ==
  /\ scan.engine = engine /\ scan.phase = "scan"
  /\ scan.pos <= Len(Segments)
  /\ LET hit == Match(scan.index, Segments[scan.pos], scan.pos)
         better == hit # NoHit /\ (scan.best = NoHit \/ Displaces(hit, scan.best))
     IN scan' = [scan EXCEPT !.pos = @ + 1, !.best = IF better THEN hit ELSE @]

Scanned(engine) == scan.engine = engine /\ scan.phase = "scan" /\ scan.pos > Len(Segments)

HigherTier(new, old) == Tier(new.mapping) < Tier(old.mapping)

Begin ==
  /\ scan.engine # "domestic" /\ scan.phase = "begin" /\ scan.amenity # <<>>
  /\ scan' = [scan EXCEPT !.phase = "scan"]

-----------------------------------------------------------------------------
(* The domestic engine.                                                    *)

InImaxHouse == scan.circuit = Imax

Empty ==
  /\ scan.engine = "domestic" /\ scan.phase = "begin" /\ scan.amenity = <<>>
  /\ IF InImaxHouse THEN Answer("IMAX", "imax", FALSE) ELSE Answer("Standard", "empty", FALSE)

\* Layer 0: a VIP seat of a circuit that has them.
Vip ==
  /\ scan.engine = "domestic" /\ scan.phase = "begin" /\ scan.amenity # <<>>
  /\ IF scan.circuit = VipHouse /\ \E p \in Range(Segments) : VipWord \in Range(p.words)
       THEN Answer("VIP", "vip", FALSE)
       ELSE scan' = [scan EXCEPT !.phase = "scan"]

\* At the same tier a mapping of this circuit goes first, then one of any.
DomesticDisplaces(new, old) ==
  \/ HigherTier(new, old)
  \/ /\ Tier(new.mapping) = Tier(old.mapping)
     /\ \/ Own(new.mapping) /\ ~Own(old.mapping)
        \/ /\ Own(new.mapping) = Own(old.mapping)
           /\ Scoped(new.mapping) /\ ~Scoped(old.mapping)

Look == LookAt("domestic", MatchSegment, DomesticDisplaces)

\* Mutant: a mapping gives its format at any circuit.
FormatAnywhere(m) == scan.index[m].format

\* The format of a keyword at the circuit of the request.
ResolveCircuitFormat(m) ==
  LET own == {k \in DOMAIN scan.index : scan.index[k].keyword = scan.index[m].keyword /\ Own(k)}
  IN CASE own # {} -> scan.index[Max(own)].format
       [] own = {} /\ ~Scoped(m) -> scan.index[m].format
       [] own = {} /\ Scoped(m) /\ scan.index[m].na # "" -> scan.index[m].na
       [] OTHER -> "Standard"

\* An IMAX house shows IMAX unless a keyword of the first tier says
\* otherwise.  What nothing matched goes to the model, except there.
Conclude ==
  /\ Scanned("domestic")
  /\ LET best == scan.best.mapping
     IN CASE InImaxHouse /\ (best = 0 \/ Tier(best) > MostUrgentTier) -> Answer("IMAX", "imax", FALSE)
          [] ~InImaxHouse /\ best = 0 -> Answer("Standard", "none", TRUE)
          [] OTHER -> Answer(ResolveCircuitFormat(best), "keyword", FALSE)

-----------------------------------------------------------------------------
(* The movie-format engine and the international one, which never asks the *)
(* model itself.                                                           *)

EmptyMovie ==
  /\ scan.engine = "movie" /\ scan.phase = "begin" /\ scan.amenity = <<>>
  /\ Answer("2D", "empty", FALSE)

LookMovie == LookAt("movie", MatchMovieSegment, HigherTier)

ConcludeMovie ==
  /\ Scanned("movie")
  /\ IF scan.best = NoHit THEN Answer("2D", "none", TRUE)
     ELSE Answer(scan.index[scan.best.mapping].format, "keyword", FALSE)

EmptyIntl ==
  /\ scan.engine = "intl" /\ scan.phase = "begin" /\ scan.amenity = <<>>
  /\ Answer("Standard", "none", FALSE)

LookIntl == LookAt("intl", MatchIntlSegment, HigherTier)

ConcludeIntl ==
  /\ Scanned("intl")
  /\ IF scan.best = NoHit THEN Answer("Standard", "none", FALSE)
     ELSE Answer(scan.index[scan.best.mapping].format, "keyword", FALSE)

ScanNext ==
  \/ Begin
  \/ Empty \/ Vip \/ Look \/ Conclude
  \/ EmptyMovie \/ LookMovie \/ ConcludeMovie
  \/ EmptyIntl \/ LookIntl \/ ConcludeIntl

-----------------------------------------------------------------------------
(* Properties.                                                             *)

\* The type of a scan (DetectionResult and the locals of detect).
ScanTypeOK ==
  /\ scan.phase \in {"begin", "scan", "done"}
  /\ scan.pos \in 1 .. Len(Segments) + 1
  /\ scan.best.mapping \in 0 .. Len(scan.index)
  /\ scan.best.pos < scan.pos
  /\ scan.result.ai \in BOOLEAN

HitAt(pos) ==
  CASE scan.engine = "domestic" -> MatchSegment(scan.index, Segments[pos], pos)
    [] scan.engine = "movie" -> MatchMovieSegment(scan.index, Segments[pos], pos)
    [] scan.engine = "intl" -> MatchIntlSegment(scan.index, Segments[pos], pos)

Hits == {HitAt(p) : p \in DOMAIN Segments} \ {NoHit}

\* How hits rank: by tier, then (domestic) by whether they are scoped to this
\* circuit, to another or to none, then by their place in the string.
Scope(m) == IF scan.engine # "domestic" \/ Own(m) THEN 0 ELSE IF Scoped(m) THEN 1 ELSE 2

AsGoodAs(hit, other) ==
  \/ Tier(hit.mapping) < Tier(other.mapping)
  \/ /\ Tier(hit.mapping) = Tier(other.mapping)
     /\ \/ Scope(hit.mapping) < Scope(other.mapping)
        \/ Scope(hit.mapping) = Scope(other.mapping) /\ hit.pos <= other.pos

\* Mappings with the form of a segment on track A.
Verbatim(pos) == {m \in DOMAIN scan.index : TrackA(scan.index[m].keyword) = TrackA(Segments[pos])}

(***************************************************************************)
(* The scan, segment by segment, ends with the best hit of the whole       *)
(* string, whatever the order of its segments; the model is asked only     *)
(* when no segment has one.  And in the international engine a keyword     *)
(* that was approved twice counts with its higher priority                 *)
(* (intl_detection/engine.py: "must win the slot").                        *)
(***************************************************************************)
CascadeKeepsTheBest ==
  scan.phase = "done" /\ scan.amenity # <<>> /\ scan.result.source # "vip" =>
    /\ scan.best = NoHit <=> Hits = {}
    /\ scan.best # NoHit =>
         scan.best \in Hits /\ \A hit \in Hits : AsGoodAs(scan.best, hit)
    /\ scan.result.ai => Hits = {}
    /\ scan.engine = "intl" =>
         \A p \in DOMAIN Segments : \A m \in Verbatim(p) : Tier(scan.best.mapping) <= Tier(m)

(***************************************************************************)
(* The rules of the circuits: an IMAX house shows IMAX unless a keyword of *)
(* the first tier was found, and never asks the model; and a format that   *)
(* only mappings of one circuit give is never shown at another             *)
(* (detection/engine.py, detect and _resolve_circuit_format).              *)
(***************************************************************************)
CircuitRulesHold ==
  scan.phase = "done" /\ scan.engine = "domestic" =>
    /\ scan.circuit = Imax =>
         /\ ~scan.result.ai
         /\ scan.result.format # "IMAX" => scan.best # NoHit /\ Tier(scan.best.mapping) <= MostUrgentTier
    /\ scan.result.source = "keyword" /\ scan.result.format # "Standard" =>
         \A m \in DOMAIN scan.index : scan.result.format = scan.index[m].format =>
           \/ ~Scoped(m) \/ Own(m)
           \/ \E k \in DOMAIN scan.index :
                \/ scan.index[k].format = scan.index[m].format /\ (~Scoped(k) \/ Own(k))
                \/ scan.index[k].na = scan.index[m].format
================================================================================
