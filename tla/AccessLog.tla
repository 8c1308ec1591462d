------------------------------ MODULE AccessLog ------------------------------
(* backend/service/vllm_access_log.py: one poller thread tails vLLM's access *)
(* log over SSH and aggregates its lines; a (re)start of vLLM marks a new    *)
(* session, whose first poll must skip what older sessions wrote.  A line of *)
(* the file is the number of the session that wrote it, and offsets count    *)
(* lines.                                                                    *)
EXTENDS Naturals, Sequences, SequencesExt

CONSTANTS MaxLaunches, \* bound: vLLM starts
          MaxLines,    \* bound: lines written in a run
          MaxRotations \* bound: rotations of the file and dashboard restarts

ASSUME AccessBounds == {MaxLaunches, MaxLines, MaxRotations} \subseteq Nat

NoStart == [at |-> 0, session |-> 0, raced |-> FALSE]

VARIABLES
  logFile,   \* the file on the server
  session,   \* the number of the running vLLM's session
  lines,     \* lines still to be written
  rotations,
  entries,   \* _entries: the lines counted
  lineBuf,   \* _line_buf: a last line whose newline was not read yet
  offset,    \* _offset, as the number of lines before it
  skipToEnd, \* _skip_to_end
  saved,     \* the session file: where the current session starts (and, as
             \* history, which session that is and whether its mark raced)
  poll,      \* the poll in progress: step, chunk read, size, shrunk, skip
  known,     \* history: the session whose statistics the dashboard shows
  raced      \* history: its mark fell between a poll's answer and its effect,
             \* or between a rotation and the poll that notices it

logVars == <<logFile, session, lines, rotations, entries, lineBuf, offset,
             skipToEnd, saved, poll, known, raced>>
serverVars == <<logFile, session, lines, rotations>>

NoPoll == [step |-> "none", chunk |-> <<>>, size |-> 0, shrunk |-> FALSE, skip |-> FALSE]

Written == 0..MaxLaunches
LogTypeOK ==
  /\ logFile \in Seq(Written) /\ entries \in Seq(Written) /\ lineBuf \in Seq(Written)
  /\ Len(lineBuf) <= 1
  /\ {session, known, saved.session} \subseteq Written
  /\ {offset, saved.at} \subseteq 0..MaxLines
  /\ {skipToEnd, raced} \subseteq BOOLEAN
  /\ poll.step \in {"none", "answered", "decided"}
  /\ lines \in 0..MaxLines /\ rotations \in 0..MaxRotations

LogInit == /\ logFile = <<>> /\ session = 0
           /\ lines = MaxLines /\ rotations = MaxRotations
           /\ entries = <<>> /\ lineBuf = <<>> /\ offset = 0
           /\ skipToEnd = FALSE /\ saved = NoStart /\ poll = NoPoll
           /\ known = 0 /\ raced = FALSE

(* vLLM serves a request, and its handler rolls the file over.               *)
Serve == /\ lines > 0
         /\ lines' = lines - 1
         /\ logFile' = Append(logFile, session)
         /\ UNCHANGED <<session, rotations, entries, lineBuf, offset, skipToEnd,
                        saved, poll, known, raced>>

Rotate == /\ rotations > 0
          /\ logFile # <<>>
          /\ rotations' = rotations - 1
          /\ logFile' = <<>>
          /\ UNCHANGED <<session, lines, entries, lineBuf, offset, skipToEnd,
                         saved, poll, known, raced>>

(* Mutant: the marker's threshold is the offset, one past the last byte.     *)
ShrunkOrQuiet(size) == size <= offset

(* The marker _build_poll_command puts first when the file shrank.           *)
Shrunk(size) == size < offset

(* start_model marks the session before it launches vLLM: the aggregates are *)
(* dropped at once, the offset is left to the next poll.                     *)
MarkSessionStart ==
  /\ session < MaxLaunches
  /\ session' = session + 1
  /\ known' = session + 1
  /\ raced' = (poll.step # "none" \/ Shrunk(Len(logFile)))
  /\ entries' = <<>> /\ lineBuf' = <<>>
  /\ skipToEnd' = TRUE
  /\ UNCHANGED <<logFile, lines, rotations, offset, saved, poll>>

(* _poll_once: the remote command answers with the lines from the offset on. *)
PollAnswers ==
  /\ poll.step = "none"
  /\ poll' = [step |-> "answered", size |-> Len(logFile), shrunk |-> Shrunk(Len(logFile)),
              chunk |-> SubSeq(logFile, offset + 1, Len(logFile)), skip |-> FALSE]
  /\ UNCHANGED <<serverVars, entries, lineBuf, offset, skipToEnd, saved, known, raced>>

(* _consume_poll_output: reset on a shrunken file, then the look at the flag.*)
PollDecides ==
  /\ poll.step = "answered"
  /\ poll' = [poll EXCEPT !.step = "decided", !.skip = skipToEnd]
  /\ IF poll.shrunk
     THEN entries' = <<>> /\ lineBuf' = <<>> /\ offset' = 0
     ELSE UNCHANGED <<entries, lineBuf, offset>>
  /\ UNCHANGED <<serverVars, skipToEnd, saved, known, raced>>

(* The session file is replaced, or the write fails and is only logged.      *)
Persist(start) == saved' \in {start, saved}

(* ingest: $(tail) strips the last newline, so the last line of a chunk      *)
(* waits in the buffer until a later chunk completes it.                     *)
Ingest(chunk) == LET read == lineBuf \o chunk
                 IN IF chunk = <<>>
                    THEN UNCHANGED <<entries, lineBuf>>
                    ELSE entries' = entries \o Front(read) /\ lineBuf' = <<Last(read)>>

(* A pending session start: the chunk is older and the tail jumps to the end *)
(* of the file, unless the file itself is newer: then its lines count.       *)
PollSkips ==
  /\ poll.step = "decided" /\ poll.skip
  /\ skipToEnd' = FALSE
  /\ \/ /\ poll.shrunk
        /\ Persist([at |-> 0, session |-> known, raced |-> raced])
        /\ Ingest(poll.chunk)
        /\ offset' = offset + Len(poll.chunk)
     \/ /\ ~poll.shrunk
        /\ Persist([at |-> poll.size, session |-> known, raced |-> raced])
        /\ offset' = poll.size
        /\ UNCHANGED <<entries, lineBuf>>
  /\ poll' = NoPoll
  /\ UNCHANGED <<serverVars, known, raced>>

(* A malformed answer leaves the skip pending.                               *)
PollMalformed ==
  /\ poll.step = "decided" /\ poll.skip
  /\ poll' = NoPoll
  /\ UNCHANGED <<serverVars, entries, lineBuf, offset, skipToEnd, saved, known, raced>>

(* A rotated file leaves the recorded session start without a meaning.       *)
Invalidated == IF poll.shrunk THEN NoStart ELSE saved

PollIngests == /\ poll.step = "decided" /\ ~poll.skip
               /\ Ingest(poll.chunk)
               /\ offset' = offset + Len(poll.chunk)
               /\ saved' = Invalidated
               /\ poll' = NoPoll
               /\ UNCHANGED <<serverVars, skipToEnd, known, raced>>

(* The dashboard restarts: only the session file is left, and the statistics *)
(* are again those of the session it names.                                  *)
LogRestart ==
  /\ rotations > 0
  /\ rotations' = rotations - 1
  /\ offset' = saved.at
  /\ known' = saved.session
  /\ entries' = <<>> /\ lineBuf' = <<>> /\ skipToEnd' = FALSE
  /\ poll' = NoPoll /\ raced' = saved.raced
  /\ UNCHANGED <<logFile, session, lines, saved>>

LogNext == \/ Serve
           \/ Rotate
           \/ MarkSessionStart
           \/ PollAnswers
           \/ PollDecides
           \/ PollSkips
           \/ PollMalformed
           \/ PollIngests
           \/ LogRestart

LogSpec == LogInit /\ [][LogNext]_logVars

-----------------------------------------------------------------------------
(* The panel counts no line older than the session it shows, through quiet   *)
(* polls, rotations, restarts of vLLM and of the dashboard, unless its mark  *)
(* raced: the poll in progress had read the flag or the size before it, or   *)
(* the fresh file, which the code takes for the new session's, already holds *)
(* lines of the old one.                                                     *)
SessionExact == raced \/ \A i \in DOMAIN entries : entries[i] >= known
=============================================================================
