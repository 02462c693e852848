# TLA+ models of the AI safety gateway

This directory keeps a verification development of the gateway under
`src/gateway`: TLA+ modules translated from its code, configurations that check
them with TLC, and theorems about them that TLAPS checks. `PROJECT.json` maps
every definition to the lines it stands for.

## The system

The gateway is one Python process (FastAPI on one asyncio event loop) between
clients and two models served by Ollama. It classifies every prompt and reply,
holds what is rated high or critical for an administrator, and writes an audit
trail to SQLite and to a JSONL file.

| Component | State | Operations | Hard behaviour |
|---|---|---|---|
| chat pipeline (`routes/chat.py`) | locals of each request across its awaits | `POST /chat`: begin, classify, pause or generate, classify, pause or deliver | several requests of one conversation interleave at the awaits; outages of both models |
| approval workflow (`routes/admin.py`, `governance.py`) | `approval_requests`, `admin_actions`, `redactions`; `app.state.pending` | approve, reject, redact-resume, false-positive, escalate | a decision on a prompt awaits the model; a second one may come meanwhile; a restart drops the contexts and keeps the rows |
| audit tables (`audit/event_sink.py`, `db.py`, `ids.py`) | `messages`, `events` | `insert_message`, `write_event`, `count_completed_responses` | deterministic ids with `INSERT OR IGNORE`; foreign keys whose refusal is swallowed |
| event sink (`write_event`, `_append_jsonl`) | an open transaction, the table, the file | insert, commit, append | faults swallowed at each step, a shared transaction, a crash between two steps |
| classification (`classification/`, `adapters/ollama_guard.py`) | none between calls | scan, ask the guard, map codes, merge | the guard answers, is unavailable, or fails otherwise |
| redaction (`governance.redact`) | none between calls | find spans, sort, mask | offsets of the original text used on a text whose length changes |
| pause policy (`policy/`) | constant | `is_paused` | |
| DLP scanner (`adapters/dlp_scanner.py`) | none between calls | `scan`, its card scan | a bounded greedy pattern, a checksum from the right |
| export (`GET /export/jsonl`) | none | read the file line by line | what faults and crashes left in the file |
| assistant adapter (`adapters/ollama_assistant.py`) | none | `chat` | timeouts, HTTP errors |
| classify, events, health routes; auth; UI; seed script | none of their own | reads | |

Handlers call the sink and the governance helpers synchronously on one shared
connection, so two handlers interleave only where one awaits a model. They
interact through the tables and through `app.state.pending`: chat puts a resume
context there, an administrator's request takes it out.

What makes each part correct:

* chat: a high or critical prompt does not reach the assistant, and such a
  reply does not reach the client, unless an administrator released it; turns
  number a conversation; every request is answered; every step leaves its events.
* approvals: what is in the queue can be decided; a decision is final and on
  record; nothing is released twice or after a rejection; what was answered
  survives a failed write and a crash.
* sink and export: an event is committed before it is appended, and appended
  once; a fault costs the export little and takes back nothing.
* classification: nothing lowers a severity; no category is lost.
* scanner: what it reports as a card is one, and no card on its own is missed.
* redaction: where no two matches overlap, every match is masked and nothing else
  is touched; a card that a text was held for is gone although the matches of two
  patterns overlap there.

## Modules

| Module | Stands for |
|---|---|
| `Taxonomy` | the severity scale, `max_severity`, the table of hazard codes, the pause decision |
| `Gateway` | `POST /chat` and the administrator's requests over the tables and `pending`; one action for each segment of a handler between two awaits |
| `Commits` | the same handlers write by write: each write may fail, and the process may die between any two |
| `HeldReplies` | what `Commits` promises about the replies it withholds: an abstract specification |
| `Classification` | one call of `classify_text`; the loops of `map_scodes` and `_max_finding_severity` step by step |
| `Redact` | one call of `redact`: find, sort, mask one span a step |
| `EventSink` | `write_event`: insert, commit and append as three steps, with faults and crashes |
| `AuditLog` | what `EventSink` promises: an abstract log |
| `Export` | the export of the file `EventSink` writes: an extension of it by what a reader sees |
| `CardScan` | one call of `_scan_credit_cards`: the candidates from left to right, the Luhn loop digit by digit |
| `CardMasking` | `redact` on a text that `_scan_credit_cards` found a card in: an extension of `CardScan` |
| `GatewayProofs`, `AuditProofs`, `CommitsProofs`, `EventSinkProofs` (with `Export`), `ClassificationProofs`, `RedactProofs`, `CardScanProofs` | theorems and proofs |
| `FoldLemmas` | induction and folds, for the proofs |
| `MC*` | constants for TLC |

`Gateway` uses the results of two of the others as functions: `ClassifyText` is
the severity that `Classification` computes in steps (`OverallIsHighest`),
`Redact[t]` the text that `Redact` computes. `Redact` takes any matches of any
patterns, those of one pattern apart; `CardMasking` has the two number patterns
themselves. `Gateway` writes events the way
`EventSink` does when nothing fails. `EventSink` implements `AuditLog` under the
mapping recorded = `durable`, file = `log`, acked = `acked`. `Commits` has the
handlers of `Gateway` again, with their control and their writes but without
texts, and implements `HeldReplies` under the mapping queue = `durable.status`,
fate = what the handlers that answered made of each withheld reply.

### Gateway

`pc[c]` says where request `c` is: `idle`, one of the three awaits
(`classify_prompt`, `generate`, `classify_response`), or how it was answered
(`delivered`, `paused`, `unavailable` for the 503, `error` for an unhandled 500,
`lost` when the process stopped). `conv`, `turn`, `prompt`, `reply` and `sev` are
its locals. The approval a request may open and its correlation id are fresh
UUIDs, so the request's own name stands for both, and a resume context is the
frozen locals of its request. `apc[d]`, `verb`, `target`, `areply` are the same
for an administrator's request. Ids that the code derives by UUID5 are the
records they are derived from: a message is its conversation, turn and
direction, an event its message and type. Two such ids are equal exactly when
the code's are.

| Action | Code |
|---|---|
| `Begin` | `chat` up to the first await: turn index, ids, prompt row |
| `PausePrompt`, `AllowPrompt` | the guard's answer on the prompt, up to the 202 or the await of the assistant |
| `GuardError` | the guard fails with anything but `GuardUnavailableError` |
| `Generated`, `GenerateUnavailable`, `GenerateError` | the assistant answers, is unavailable (503), or fails otherwise |
| `PauseResponse`, `Deliver` | the guard's answer on the reply |
| `NotFound` | 404: no context |
| `Reject`, `Escalate`, `Release` | a decision that awaits nothing |
| `Resume`, `ResumeDelivered`, `ResumeFailed` | approve, redact-resume or false-positive of a held prompt, before and after its await |
| `Restart` | the process stops at an await and starts again |

`Decide` is the common end of the verbs: their events, the `admin_actions` row,
the `redactions` row of a redact-resume, the status, and the `pop` that only
escalate leaves out.

### Commits

Every write of a handler is an execute and a commit of its own on one shared
connection, and nothing ties them together. A handler that resumes at an await
(`Run`) queues its writes in `todo`, in the order of the code; `Written`,
`Refused` and `Faulted` take them one by one; `Finish` is the answer, or the next
await, and the change of `app.state.pending` that comes last in the code. Nobody
else runs meanwhile (`who`), but the process may die at any point (`Crash`).

| Action | Code |
|---|---|
| `Begin` ... `Deliver` | the segments of `chat`, as in `Gateway`, by the writes each does |
| `NotFound` ... `ResumeFailed` | the segments of the verbs; `DecisionWrites` is their common end |
| `Written` | the statement and its commit: whatever was left in the open transaction becomes durable with it |
| `Refused` | a foreign key fails |
| `Faulted` | SQLite fails at the statement, at the commit (the transaction stays open, with or without the statement), or so that it rolls back |
| `Fail` | `write_event` swallows a failure; every other writer raises and the request is a 500 |
| `Crash` | what is not committed is gone, the contexts in memory are dropped |

`seen` is the database as the connection sees it, `durable` as committed. A
request's own name stands for its approval row and, for an administrator's, for
its action, redactions row and status update. There is one conversation, and its
row, which `upsert_conversation` writes right before the first message, is part
of that write: whichever of the two fails, the request is a 500 and nothing of it
is recorded.

### EventSink and Export

`rows` is the table as the connection sees it, `durable` as committed; they
differ while a transaction is open, which a failed commit leaves it. An append
that does not return may have written nothing, all of the line, all but its
newline (`bare`), or a part of it that ends between two characters (`cut`) or
within one (`split`: the file is written as UTF-8 without escapes).
A fault is any exception of SQLite or the file system; the foreign-key refusal
that `Gateway` models by `WriteEvents` is one of them. `Export` has no state of
its own: the handler reads the file without an await, so its answer is a function
of `log`. A chunk after an unfinished one continues its line; a line parses when
it is one whole object.

### CardScan

A text is a sequence of small numbers, a digit being itself, so that the Luhn sum
is computed as in the code. `Ends` gives the ends the pattern may have from a
start: at the n-th digit for every n the quantifier allows, with at most one
separator before each, and a word boundary after it. `MatchEnd` takes the longest,
as a greedy quantifier that gives back does, and `FindNext` the leftmost start, as
`finditer` does. The bounds 13 and 19, of the pattern and of the check, are
constants; `ReachAssumption` keeps what holds between the code's numbers: no number
the check accepts is too long for the pattern, and no candidate is too short for
the check.

### CardMasking

After a scan that found a card, which is what holds a text, `redact` runs on the
same text: `FindMatch` and `NextPattern` are its loop over the patterns and their
`finditer`, one match a step, and `MaskSpan` its loop over the sorted spans, one
mask a step. `p`, `rpos` and `spans` are the pattern, where its search goes on, and
the spans found; `masked` those that are masked, `redacted` the text so far, in
which a character is its place in the original one and 0 stands in a mask. The
spans are masked from the last start to the first, and those of one start in the
order of the patterns (`LastStartFirst`), since `sorted` keeps it when it reverses.
The slices of Python are `Before` and `From`, which take less than asked for when
the text has become shorter than the offset.

The 13 and 16 of `card_number`, the 7 of `phone` and the lengths of the masks are
constants; `MaskAssumption` says that a candidate of the scan is long enough for
`card_number` and a match of `card_number` for `phone`. Texts have no plus sign. The
other seven patterns are left out because none of them begins and ends within a
card: `email` ends in letters, `high_entropy` takes 32 characters without a blank or
a dash, and the rest begin with letters or dashes of their own. A match of theirs
that overlaps a card therefore reaches beyond its end, and is masked no later with
what it has of the card, or starts before it, and is masked after it, which brings
nothing back. This is argued here and not checked.

## Runs

Passing runs:

| Run | Instance | Shows |
|---|---|---|
| `turns` | 3 chat requests, 2 conversations, 1 administrator, symmetric | `TurnsContiguous`: a conversation's response rows are its turns 0..n-1 although turn indices are read long before rows are written. `SoleTurnCaptured`: a request alone on its turn has its own texts in its rows and events |
| `decisions` | 2 chat requests on one conversation, 2 administrators, 1 restart | `AuditComplete`: no event is lost to a foreign key. `PromptHeldUntilReleased`, `ReplyHeldUntilReleased`. `OpenRowsResumable`: queue and contexts agree. `DecisionsRecorded`. `AuditAppendOnly` |
| `answered` | 2 chat requests, 1 administrator, 1 restart, fairness | `Answered`: every request that awaits is answered |
| `classification` | up to 3 codes out of 5 and 3 findings out of 3 | `OverallIsHighest`, `CategoriesInOrder` against declarative definitions |
| `redaction` | text of 5 characters, 2 patterns with up to 2 matches each, masks of 1 and 3 characters | `OffsetsValid`, `MasksExactly` |
| `event_sink` | 3 events and a malformed one, 4 faults | `Gate`, `WrittenOnce`, `ImplementsAuditLog`; of the export, `LossBounded`: no more acknowledged events are missing than appends were torn, and `ExportsGrow`: what it has shown stays |
| `commits` | 2 chat requests, 2 administrators, 1 failed write, 1 crash, symmetric | `PausedIsQueued`, `DecisionDurable`: what was answered with 202 or 200 is committed and stays. `TrailBeforeStatus`: no decided status without its action. `ContextsMatchRows`: the three ways in which queue and contexts part, and no other. `AuditedWithoutFaults`: a crash alone loses no event of an answer. `ImplementsHeldReplies` |
| `card_scan` | every text of up to 7 characters over 3 digits, a dash, a newline and a letter; candidates of 3 to 5 digits, cards of 2 to 4, `card_number` of 2 or 3, `phone` of 2 characters or more, masks of 4 and 3 | `FindingsAreCards` against Luhn's formula, `LoneCardFound`. `CardsMasked`: nothing is left in the result of `redact` of a found card that one match of `card_number` takes, or that has no other digits beside it, no newline in it, and either fits that pattern or is one run of digits |

Bounds. Two requests are enough to share a turn and three to have one of them
complete the turn while two hold it; a second conversation shows that their
keys are apart. Two administrators are enough for every race on one approval:
decisions on different approvals touch no common state but the tables. Two
prompts and two replies, one of each with a finding, and a guard that says none
or high, give every outcome of a classification the pause decision can tell
apart. Restarts are bounded because each resets the same state. Three codes
show a maximum in first, middle and last place, a repeated category and an
unknown code. Five characters hold two matches of each of two patterns with
text before, between and after them. Four faults cover a fault in each
step of one call and a crash in the retry.
In `commits` a second administrator meets what the first one left: a decision
that failed half way, an escalation, an open transaction. A failed write and a
crash may come in either order at any of the writes (the same properties hold
with two failed writes, at seven times the states). In `card_scan` the pattern's
bounds are scaled down so that a text can be too short, too long, hold two
candidates, or need backtracking, and so that `redact` finds a card in one match, in
a longer one, or not at all; the relations between the bounds are the code's
(`ReachAssumption`, `MaskAssumption`). Both provisos of `CardsMasked`, no digits
beside the card and a card that fits, are needed: without either of them TLC finds
a card of which digits are left.
Digits 0, 5 and 9 are the ones whose double stays, carries, and is a fixed point.

Runs that end in a violation show where the code departs from what a document,
a comment or a test says of it:

| Run | What happens |
|---|---|
| `prompts_captured` | a second request on a turn sends a prompt that no event records (GATE-01) |
| `resolution_final` | reject during the await of an approve: both succeed, the reply is delivered |
| `matches_masked` | overlapping matches leave a part of one unmasked |
| `runs_found` | a card of 13 digits is no candidate: the pattern wants 14 to 20 |

Further departures of the same kinds were met while modelling; they follow from
the same actions and have no run of their own:

* turns: a resume on a turn that another request completed returns a reply that
  no event records (GATE-02); two prompts held on one turn share an event, so the
  queue shows one content for both; two equal verdicts on one turn leave one
  `approval.*` event (`admin.py` line 15);
* approvals: the reply to a released prompt is never classified (CLASS-02); an
  outage during a resume is an unhandled 500 without an event (REL-03), and so
  is a guard failure other than unavailability (`orchestrator.py` line 16); the
  page lists `?status=pending` only, so an escalated approval disappears from it;
* faults: an event that a fault swallowed is missing for good although the action
  it is about is on record (`admin.py` line 15), and the 503 says `"audited":
  True` regardless; a release whose last writes fail leaves `response.delivered`
  on record for a reply nobody received; a pause whose row fails at the commit can
  turn up in the queue later, without a context; a fault between commit and append
  loses the line (`governance.py` line 15);
* export: a line without its newline takes the acknowledged line that follows it
  out of the redacted export ("Atomic append", `event_sink.py` line 224); a
  character cut in two makes every export a 500;
* redaction: of a card of 17 to 19 digits in groups, or one with other digits
  beside it, `redact` can leave the last digits, by the overlap that
  `matches_masked` shows: in "0 4111 1111 1111 1111", a valid number of 17 digits,
  `card_number` takes the 13 digits in front of the last group, its mask of 22
  characters replaces 16, and `phone`, with the same start, cuts the new text at
  its old end, in front of the last group;
* scanner: two cards on consecutive lines, each in groups of four, merge into a
  candidate of 20 digits, which the check refuses, and neither is found; a card
  with newlines or tabs between its groups is found and `redact` does not mask
  it; tokens of Slack, Google and GCP are found and `redact` has no pattern for
  them at all.

Every property of a passing run has a mutant in the modules (marked `MUTANT`), a
plausible slip in the code it is about, under which TLC finds it violated.

### Fairness

`FairSpec` asks weak fairness of each request's own steps once it awaits a
model: `ChatStep(c)` and `AdminStep(d)`. The code justifies it: the shared httpx
client has a timeout (`ollama_timeout_seconds`) for connecting and for each
read, and the event loop resumes whoever is ready. A server that sends a byte
before each timeout expires is outside the assumption. No fairness is asked of
clients, administrators or restarts.

## Proofs

Every invariant, action property and refinement that a passing run checks is
stated by a theorem, for all values of the constants that satisfy the modules'
assumptions: texts and severities of the right type, natural bounds,
`ReachAssumption` and `MaskAssumption`. A run checks each on a small instance.

* `GatewayProofs`. `TypeCorrect` by `TypeOK` and the finiteness of `messages`.
  `TurnsAreContiguous` needs that finiteness too: inserting a response row at
  turn `turn[c] <= n` either is ignored or adds the turn `n` to `0..n-1`.
  `QueueResumable` is inductive with the types. `PromptsHeld` needs to know that
  only a request that is generating or further has sent its prompt without a
  release (`PromptInv`), `RepliesHeld` that a held reply whose context is still in
  memory has been resolved by nobody (`ReplyInv`).
* `AuditProofs`. `AppendOnly` by monotonicity of every insert.
  `DecisionsOnRecord` needs more than itself: a request that pauses must not find
  its row decided already (`ActionsOnPaused`: only paused requests have actions),
  and an escalation must not meet a resolved row, which `OpenRowsResumable`
  excludes, since what is in memory is open. `RecordInv` is their conjunction.
  `AuditIsComplete` needs the rows the events refer to: `OnTrail`
  adds to what `AuditComplete` says of a request that its prompt and its reply have
  their rows, and that a request before its reply has none. `SoleTurnIsCaptured`
  rests on it and on whose the rows are (`CaptureInv`): a message row was written by
  some request on that turn with its own text, an event by the request in its
  correlation id with its text, a delivery to a paused request by a release. The
  event of a step is on record by `AuditComplete`, it belongs to a request on that
  turn, and alone on the turn is one request. The rejection of a reply writes
  a second `response.blocked`, without a text; the proof shows that it is always
  ignored, since the event of the pause is there first.
* `CommitsProofs`. `IInv` has a layer for each question. `Places` says where each
  handler and each context can be. `ToDo` is about the running handler: the status
  of a decision and the row of a pause are written last, each write behind the
  ones it rests on, and what stands before a write that succeeded is durable with
  it (`Ordered`, `Redacted` prove the same of the sequences the handlers queue).
  `Backed` says the same of the tables, and must be said of `seen` and of
  `durable`, since a crash makes the one the other and a late commit the other way
  round. `Settled` is what an answered decision leaves behind, `Decidable` what a
  held request has, and `Agreed` that the open transaction holds nothing about a
  settled reply, without which a late commit could change its row. They give
  `PausedQueued`, `DecisionsDurable` and `TrailFirst` at once; `ContextsMatch` needs
  besides that no context of a decision which a crash cut off comes back
  (`LostLeft`). `Refinement` maps
  `Finish` to Hold, Release, Reject or a stutter, `Crash` to Drop, and every other
  step to Record. `CrashesLoseNoEvent` is about the executions without a failed
  write, in which `seen` is `durable` (`Unfaulted`): a message is in the table
  or in front of the events about it in what the running handler has to do, an
  event in front of its action, and an answer's event in one of the two
  (`Announced`), so that no foreign key refuses it and a crash takes the answer
  away with what was still to be written.
* `EventSinkProofs`. The inductive invariant is `TypeOK /\ Gate /\ WrittenOnce`:
  `Gate` relates the point a call has reached to table and file, and gives both
  `LinesUnique` and, action by action, the step simulation of `Refinement`. The
  two theorems about `Export` need besides that every acknowledged event has a
  whole chunk in the file (`Whole`). An export misses such a chunk only where it
  continues an unfinished one: sending each missing event to the torn chunk
  right before its own is an injection, which is `ExportLossBounded`. By
  `WrittenOnce` an acknowledged event that was shown was shown from its whole chunk;
  that one ends its line, so no later chunk continues it: `ExportKeepsWhatItShowed`.
* `FoldLemmas`. Induction over the natural numbers in the form the provers can
  use: a property is a set, and a set of numbers has a least element (from the
  library's `WFMin`). With it, `FoldExists` and `FoldSteps` say what `FoldLeft`
  computes: there is a function on `0..Len(s)` whose value at each position is
  the operation applied to the one before, and the fold is its last value.
  `FromKeys`, `CategoriesOf`, `Joined`, `OnlyDigits` and `LuhnSum` are folds.
* `ClassificationProofs`. `IInv` says of each loop that it holds the highest
  severity of the elements it has passed and that the value is one of theirs;
  `SeverityIsHighest` follows for lists of any length. For
  `CategoriesKeepTheirOrder`, `FromKeys` keeps exactly the first occurrences in
  order (by its fold's steps), the loop of `map_scodes` has appended the
  categories of the codes it has passed, and a list whose beginning is deduplicated
  has the same first occurrences in the same order as the one it came from.
* `RedactProofs`. `Shape` has the types and that `order` is a rearrangement of
  `spans` from the last start to the first. `TextInv` is the loop's invariant: up
  to the start of the last span masked the text is the original, and the rest
  is, if no two spans overlap, what reading the pieces of `MaskedText` from there
  on gives. One step (`MaskSpanStep`) moves that border: between the end of the
  span and the border every piece is a character of its own, within the span
  every piece but the first is empty. `OffsetsStayValid` and
  `MatchesReplacedExactly` are then about its two ends.
* `CardScanProofs`. A match of the pattern is characterised by the positions of
  its digits (`Chain`), hence has as many digits as it has positions
  (`ChainCandidates`). The loop's invariant `Balanced` says that `total` and the
  weights of the digits to its left add up to Luhn's sum: the loop goes from the
  right and subtracts nine, the formula takes cross sums from the left.
  `OnlyCardsFound` and `TypeCorrect` follow.
  `EveryLoneCardFound` rests on `Caught`: a lone card is found already, or is
  being checked, or the search has not got to it. No candidate that starts
  before it takes any of it (`LoneNotCrossed`), and the longest match from its
  start is all of it (`LoneMatches`).
  To the scan the steps of `redact` are stuttering steps, so all of this holds of
  `MaskingSpec` too (`MaskingScans`). `MInv` is the invariant of the masking: a
  search's spans end where it goes on (`Matched`, which gives `MaskingTypeCorrect`),
  every match of `phone` is covered by one found (`PhonesCovered`) and every match of
  `card_number` that stands alone is found (`AloneFound`); up to the last mask the
  text is the original (`InOrder`), and a span that shares no character with one
  masked before it leaves none (`Gone`). A match of `card_number` is such a span
  (`CardNumberIsClean`): it is long enough for `phone`, so a found `phone` match covers
  it, any other is apart from that one, and the one that covers it starts no later
  and is masked after it. Of a card that stands alone and is longer, the `phone`
  match is all, and within one run of digits no other can begin.
  `EveryHeldCardMasked` has these two cases.

Only model-checked: liveness (`Answered`), which is out of the prover's reach, and
the properties that the runs ending in a violation refute.

## Not modelled

The other regular expressions and the entropy test of the scanner: their findings
are inputs. (Of the entropy test, arithmetic says what a model would not: k distinct
characters give at most log2 k bits, so a token needs 23 of them to reach the
threshold of 4.5, the tokens of 20 to 22 characters that the pattern admits never
do, nor do hexadecimal ones, and the check for 10 distinct characters is never the
one that decides.)
Formats of events and texts beyond what the properties tell apart; confidence; the earlier messages of a chat request; loading of the policy;
health probes; authentication; the UI; the other read-only routes, which have no state and whose queries return
committed rows. `Gateway` has neither faults nor a crash inside a segment, and
`Commits` no texts and one conversation: together the states are too many, and
no property needs both. An `unsafe` answer without a known code has severity
`none`, as the docstring of `map_scodes` says; "fail closed" without the guard
(README of the gateway, REL-02) is read as in the tests: the scanner decides.

## Plan

1. Written: `Taxonomy`, `Gateway`, `Commits` with `HeldReplies`, `EventSink` with
   `AuditLog` and `Export`, `Classification`, `Redact`, `CardScan` with `CardMasking`,
   and the proofs above.
2. A proof still worth having: that `ResolutionFinal` holds with one administrator
   at a time.
3. `Access`: routes and roles of `auth.py`; `Queue`: the page's polling of a queue
   that changes under it.
