------------------------------- MODULE CostFetch -------------------------------
(***************************************************************************)
(* The cost estimate of the usage panel: cost-fetch.py reads the           *)
(* transcripts that Claude Code and Codex keep appending to, resumes from  *)
(* a cache of what it read before, asks a T3 server for the usage of its   *)
(* host (t3_costs.py), leaves out the second source of one folder and      *)
(* reports a total; what it costs is left out.  The agents write while the *)
(* scan runs, the panel may kill it at any point, and the next refresh     *)
(* starts from the files that are on disk then.                            *)
(*                                                                         *)
(* A line takes three bytes, so that a file can end in half a line, in a   *)
(* whole line without its newline, or after a newline; a guard takes one,  *)
(* which is the end of a line.                                             *)
(* Time is counted in days.                                                *)
(***************************************************************************)
EXTENDS Integers, Sequences, FiniteSets, SequencesExt

CONSTANTS
    Files,         \* paths of transcripts
    ProviderOf,    \* Files -> {"claude", "codex"}
    Keys,          \* message ids (Claude) or counter signatures (Codex)
    Setups,        \* the settings and the files a run may start from
    Retention,     \* CACHE_RETENTION_DAYS
    Window,        \* the period of the report
    Gap,           \* FORK_COPY_MAX_GAP_MS
    FileBytes,     \* MAX_TRANSCRIPT_FILE_BYTES
    ScanBytes,     \* MAX_TRANSCRIPT_SCAN_BYTES
    FileRecords,   \* MAX_TRANSCRIPT_RECORDS_PER_FILE
    TotalRecords,  \* MAX_TRANSCRIPT_RECORDS_TOTAL
    WalkFiles,     \* MAX_TRANSCRIPT_FILES_PER_PROVIDER (and ..._DIRECTORIES_PER_PROVIDER)
    CacheFiles,    \* MAX_SCAN_CACHE_FILES
    Start, MaxNow, \* bounds of the clock
    MaxWrites,     \* bound on what the agents write, in any of the setups
    MaxFaults      \* bound on kills and failing calls, in any of the setups

(* The code's limits leave room for the largest file in an unspent scan.   *)
ASSUME LimitsAssumption ==
    /\ ProviderOf \in [Files -> {"claude", "codex"}]
    /\ Window \in Nat /\ Retention \in Nat /\ Window <= Retention
    /\ ScanBytes >= FileBytes + 2 /\ TotalRecords >= FileRecords
    /\ {WalkFiles, CacheFiles} \subseteq Nat \ {0} /\ Start \in 0..MaxNow
    /\ \A s \in Setups : s.writes <= MaxWrites /\ s.faults <= MaxFaults

VARIABLES
    now, setup, faults,
    disk,    \* inode -> its content: lines, unfinished line, last write
    name,    \* Files -> inode, 0 when there is no such file
    writes,  \* number of writes so far: the mtime of the last one
    cache,   \* cost-scan-cache.json
    scan,    \* the running cost-fetch.py, up to its report
    mem,     \* its copy of the cache
    t3,      \* the T3 server: its valid access token, spent pairing token, usage
    auth,    \* t3-auth-*.json: the saved access token, 0 for none
    snap,    \* t3-usage-*.json: the saved summary
    thread,  \* the thread that runs t3_costs.collect
    report,  \* the last payload
    ever,    \* history: Claude lines ever written
    before   \* history: what the sources held when the process began

world   == <<now, setup, disk, name, writes, ever>>
remote  == <<t3, auth, snap, thread>>
vars    == <<world, faults, cache, scan, mem, remote, report, before>>

Inodes  == 1..(Cardinality(Files) + MaxWrites)
Days    == 0..MaxNow
Stages  == {"none", "half", "whole"}
Lines   == [kind : {"usage", "meta", "context", "count", "huge"}, key : Keys, at : Days]

NoLine  == [kind |-> "usage", key |-> CHOOSE k \in Keys : TRUE, at |-> 0]
Empty   == [lines |-> <<>>, stage |-> "none", line |-> NoLine, m |-> 0, t |-> 0, gen |-> 0]

initial_codex_state == [model |-> FALSE, sig |-> 0, meta |-> FALSE, fork |-> FALSE, anchor |-> 0]

(* gen is a history: which rewrite the position belongs to; blind: it was  *)
(* resumed over a rewrite that the guard did not show.                     *)
NoEntry == [there |-> FALSE, s |-> 0, m |-> 0, t |-> 0, ino |-> 0, recs |-> <<>>, tail |-> 0,
            offset |-> 0, guard |-> <<>>, state |-> initial_codex_state, gen |-> 0, blind |-> FALSE]
NoFile  == [f |-> 0, ino |-> 0, m |-> 0, s |-> 0, t |-> 0]
NoWork  == [entry |-> NoEntry, start |-> 0, recs |-> <<>>, tail |-> <<>>, state |-> initial_codex_state,
            gen |-> 0, blind |-> FALSE]
NoSnap  == [there |-> FALSE, at |-> 0, status |-> "missing", buckets |-> [d \in Days |-> 0]]
Resting == [pc |-> "idle", stamp |-> 0, todo |-> <<>>, cand |-> <<>>, file |-> NoFile, work |-> NoWork,
            budget |-> 0, recs |-> <<>>, local |-> <<>>, scanned |-> 0, skipped |-> 0,
            live |-> {}, walked |-> {}, changed |-> FALSE, blind |-> FALSE]
NoThread == [pc |-> "none", access |-> 0, summary |-> NoSnap]
NoReport == [made |-> FALSE, stamp |-> 0, complete |-> FALSE, records |-> 0]

Nothing == [keys |-> {}, days |-> {}, backlog |-> 0, events |-> 0]

Holding(lines) == [Empty EXCEPT !.lines = lines]

Init ==
    /\ setup \in Setups
    /\ now = Start /\ faults = 0 /\ writes = 0
    /\ LET order == SetToSeq(DOMAIN setup.lines)
       IN  /\ name = [f \in Files |-> IF f \in DOMAIN setup.lines
                                       THEN CHOOSE i \in 1..Len(order) : order[i] = f ELSE 0]
           /\ disk = [i \in Inodes |-> IF i <= Len(order) THEN [Holding(setup.lines[order[i]]) EXCEPT !.t = Start]
                                        ELSE Empty]
    /\ cache = [f \in Files |-> NoEntry] /\ mem = [f \in Files |-> NoEntry]
    /\ scan = Resting /\ thread = NoThread
    /\ t3 = [access |-> 1, spent |-> FALSE, days |-> {Start}]
    /\ auth = 0 /\ snap = NoSnap /\ report = NoReport
    /\ ever = UNION {{setup.lines[f][i] : i \in 1..Len(setup.lines[f])} :
                        f \in {g \in DOMAIN setup.lines : ProviderOf[g] = "claude"}}
    /\ before = Nothing

Fault == faults < setup.faults /\ faults' = faults + 1

--------------------------------------------------------------------------------
(* The agents that write transcripts.                                      *)

Size(c) == 3 * Len(c.lines) + (CASE c.stage = "none" -> 0 [] c.stage = "half" -> 1 [] OTHER -> 2)

LinesOf(f) == {l \in Lines : /\ l.at = now
                             /\ l.kind \in (IF ProviderOf[f] = "claude" THEN {"usage"} ELSE {"meta", "context", "count"})
                             /\ l.kind \in {"meta", "context"} => l.key = NoLine.key}

Written(i, c) == disk' = [disk EXCEPT ![i] = [c EXCEPT !.m = writes + 1, !.t = now]]

Writing == writes < setup.writes /\ writes' = writes + 1

(* A line reaches the file in one write or in several.                     *)
AgentWrites(f) ==
    /\ Writing /\ name[f] # 0
    /\ LET i == name[f]
           c == disk[i]
       IN  \/ /\ c.stage = "none"
              /\ \E l \in LinesOf(f), stage \in Stages :
                    /\ Written(i, IF stage = "none" THEN [c EXCEPT !.lines = Append(@, l)]
                                   ELSE [c EXCEPT !.stage = stage, !.line = l])
                    /\ ever' = IF l.kind = "usage" THEN ever \cup {l} ELSE ever
           \/ /\ c.stage = "half" /\ Written(i, [c EXCEPT !.stage = "whole"]) /\ UNCHANGED ever
           \/ /\ c.stage = "whole" /\ UNCHANGED ever
              /\ Written(i, [c EXCEPT !.lines = Append(@, c.line), !.stage = "none", !.line = NoLine])
    /\ UNCHANGED <<now, setup, faults, name, cache, scan, mem, remote, report, before>>

(* What the scan may no longer find is dropped from the history.           *)
KeysIn(f) == IF name[f] # 0 THEN {disk[name[f]].lines[i].key : i \in 1..Len(disk[name[f]].lines)} ELSE {}
Kept == UNION {KeysIn(f) : f \in {g \in Files : ProviderOf[g] = "claude"}}
Lost == before' = [before EXCEPT !.keys = @ \cap Kept']

(* A transcript is rewritten in place: truncated, or with another first    *)
(* line and one more at its end.                                           *)
AgentRewrites(f) ==
    /\ Writing /\ name[f] # 0 /\ Size(disk[name[f]]) > 0
    /\ \E n \in 0..1, l, m \in LinesOf(f) :
          LET old == disk[name[f]].lines
              new == IF n = 0 THEN <<>> ELSE Append(IF old = <<>> THEN <<l>> ELSE [old EXCEPT ![1] = l], m)
          IN  /\ Written(name[f], [Holding(new) EXCEPT !.gen = disk[name[f]].gen + 1])
              /\ ever' = IF ProviderOf[f] = "claude" /\ n > 0 THEN ever \cup {l, m} ELSE ever
    /\ UNCHANGED <<now, setup, faults, name, cache, scan, mem, remote, report>>
    /\ Lost

(* A transcript is begun, or replaced by another file of that name.        *)
AgentReplaces(f) ==
    /\ Writing /\ f \in DOMAIN setup.lines
    /\ LET used == {i \in Inodes : disk[i].m > 0 \/ Size(disk[i]) > 0} \cup {name[g] : g \in Files}
           i == CHOOSE j \in Inodes : j \notin used
           old == IF name[f] = 0 THEN <<>> ELSE disk[name[f]].lines
       IN  \E n \in 0..1 :
              /\ n <= Len(old)
              /\ Written(i, Holding(SubSeq(old, 1, n)))
              /\ name' = [name EXCEPT ![f] = i]
    /\ UNCHANGED <<now, setup, faults, ever, cache, scan, mem, remote, report>>
    /\ Lost

AgentRemoves(f) ==
    /\ Writing /\ name[f] # 0
    /\ name' = [name EXCEPT ![f] = 0]
    /\ UNCHANGED <<now, setup, faults, disk, ever, cache, scan, mem, remote, report>>
    /\ Lost

Tick ==
    /\ now < MaxNow /\ now' = now + 1
    /\ UNCHANGED <<setup, disk, name, writes, ever, faults, cache, scan, mem, remote, report, before>>

--------------------------------------------------------------------------------
(* Parsing a transcript.                                                   *)

Record(l) == [key |-> l.key, at |-> l.at]

claude_line(acc, l, ret) ==
    IF l.at < ret \/ l.key \in acc.seen THEN acc
    ELSE [acc EXCEPT !.recs = Append(@, Record(l)), !.seen = @ \cup {l.key}]

(* The first session_meta may say that the session is a fork; the copies   *)
(* of the parent's counts follow each other closely and are not counted.   *)
codex_line(acc, l, ret) ==
    LET st == acc.state
        suppressed == st.fork /\ l.at < st.anchor + Gap
        fork == IF suppressed THEN [st EXCEPT !.sig = l.key, !.anchor = l.at]
                 ELSE [st EXCEPT !.sig = l.key, !.fork = FALSE]
    IN  CASE l.kind = "meta" /\ ~st.meta ->
                [acc EXCEPT !.state = [@ EXCEPT !.meta = TRUE, !.fork = TRUE, !.anchor = l.at]]
          [] l.kind = "context" -> [acc EXCEPT !.state.model = TRUE]
          [] l.kind = "count" /\ st.model /\ l.key # st.sig ->
                [acc EXCEPT !.state = fork,
                            !.recs = IF suppressed \/ l.at < ret THEN @ ELSE Append(@, Record(l))]
          [] OTHER -> acc

parse(p, lines, state, ret) ==
    FoldLeft(LAMBDA acc, l : IF p = "claude" THEN claude_line(acc, l, ret) ELSE codex_line(acc, l, ret),
             [recs |-> <<>>, seen |-> {}, state |-> state], lines)

(* One set of ids spans what was kept, what was appended and what is still *)
(* provisional at the end of the file.                                     *)
Recent(recs, ret) == SelectSeq(recs, LAMBDA r : r.at >= ret)

dedupe(recs) == FoldLeft(LAMBDA acc, r : IF \E i \in 1..Len(acc) : acc[i].key = r.key
                                          THEN acc ELSE Append(acc, r), <<>>, recs)

Unique(p, recs) == IF p = "claude" THEN dedupe(recs) ELSE recs

merge(p, complete, tail, ret) ==
    LET all == Unique(p, Recent(complete, ret) \o Recent(tail, ret))
        kept == Unique(p, Recent(complete, ret))
    IN  [recs |-> all, tail |-> Len(all) - Len(kept)]

(* The first n bytes of a file that may have grown since.                  *)
Prefix(c, n) ==
    LET k == n \div 3
        next == IF k < Len(c.lines) THEN c.lines[k + 1] ELSE c.line
    IN  [lines |-> SubSeq(c.lines, 1, k),
         tail  |-> IF n % 3 = 2 THEN <<next>> ELSE <<>>]

(* The hash of the last bytes before a position.                           *)
Guard(c, n) == IF n = 0 THEN <<>> ELSE <<c.lines[n]>>
GuardBytes(n) == IF n = 0 THEN 0 ELSE 1

--------------------------------------------------------------------------------
(* scan_transcripts.                                                       *)

Exists(f) == name[f] # 0
FilesOf(p) == {f \in Files : ProviderOf[f] = p}
transcript_root(p) == \E f \in DOMAIN setup.lines : ProviderOf[f] = p
Ret == scan.stamp - Retention
At(pc) == scan.pc = pc
Go(pc) == scan' = [scan EXCEPT !.pc = pc]

Newest(seq) == SortSeq(seq, LAMBDA a, b : a.m > b.m \/ (a.m = b.m /\ a.f > b.f))
Stat(f) == [f |-> f, ino |-> name[f], m |-> disk[name[f]].m, s |-> Size(disk[name[f]]), t |-> disk[name[f]].t]

(* Transcripts that a scan cannot take from the cache.                     *)
Hit(e, c) == e.there /\ e.s = c.s /\ e.m = c.m /\ e.ino = c.ino
Backlog == Cardinality({f \in Files : /\ Exists(f) /\ ProviderOf[f] \in setup.providers
                                     /\ ~Hit(cache[f], Stat(f))})

(* What save_scan_cache writes of the entries in some order, and           *)
(* load_scan_cache takes from the file: as many as the limits allow.       *)
Present(m) == {f \in Files : m[f].there}
Fitting(m, order) ==
    LET total(S) == MapThenSumSet(LAMBDA f : Len(m[f].recs), S)
        fit == FoldLeft(LAMBDA S, f : IF Cardinality(S) < CacheFiles /\ total(S) + Len(m[f].recs) <= TotalRecords
                                        THEN S \cup {f} ELSE S, {}, order)
    IN  [f \in Files |-> IF f \in fit THEN m[f] ELSE NoEntry]

load_scan_cache == \E order \in SetToSeqs(Present(cache)) : mem' = Fitting(cache, order)

Writes(kept) ==
    \/ /\ \E order \in SetToSeqs(Present(kept)) : cache' = Fitting(kept, order)
       /\ UNCHANGED faults
    \/ Fault /\ UNCHANGED cache

(* The panel starts the process; its threads and its scan run together.    *)
Begin ==
    /\ At("idle")
    /\ scan' = [Resting EXCEPT !.pc = "discover", !.stamp = now, !.budget = ScanBytes,
                               !.todo = SelectSeq(<<"claude", "codex">>, LAMBDA p : p \in setup.providers)]
    /\ load_scan_cache
    /\ thread' = IF setup.home = "none" THEN NoThread ELSE [NoThread EXCEPT !.pc = "rpc", !.access = auth]
    /\ before' = [keys |-> Kept, days |-> t3.days, backlog |-> Backlog, events |-> writes + faults]
    /\ report' = NoReport
    /\ UNCHANGED <<world, faults, cache, t3, auth, snap>>

(* One provider's directory tree; a directory that cannot be read, or the  *)
(* limit of files or directories that ends the walk anywhere in the tree,  *)
(* hides files and keeps the cache's entries of that provider.             *)
discover_transcripts ==
    /\ At("discover") /\ scan.todo # <<>>
    /\ LET p == Head(scan.todo)
           there == {f \in FilesOf(p) : Exists(f)}
       IN  IF ~transcript_root(p)
           THEN /\ scan' = [scan EXCEPT !.todo = Tail(@), !.local = Append(@, [p |-> p, status |-> "missing", recs |-> <<>>])]
                /\ UNCHANGED faults
           ELSE \E seen \in SUBSET there :
                LET hidden == there \ seen IN
                /\ \/ hidden = {} /\ Cardinality(there) <= WalkFiles /\ UNCHANGED faults
                   \/ hidden # {} /\ Cardinality(seen) = WalkFiles /\ UNCHANGED faults
                   \/ Cardinality(hidden) = 1 /\ Cardinality(seen) < WalkFiles /\ Fault
                /\ scan' = [scan EXCEPT !.pc = "file", !.recs = <<>>, !.scanned = 0,
                        !.cand = SelectSeq(Newest(SetToSeq({Stat(f) : f \in seen})),
                                           LAMBDA c : c.t + Retention >= scan.stamp),
                        !.skipped = IF hidden = {} THEN 0 ELSE 1,
                        !.walked = IF hidden = {} THEN @ \cup {p} ELSE @,
                        !.live = @ \cup seen]
    /\ UNCHANGED <<world, cache, mem, remote, report, before>>

Passed(sc) == [sc EXCEPT !.pc = "file", !.cand = Tail(@), !.file = NoFile, !.work = NoWork]
Skipped(sc) == [Passed(sc) EXCEPT !.skipped = @ + 1]

RecordsSoFar == Len(scan.recs) + FoldLeft(LAMBDA n, l : n + Len(l.recs), 0, scan.local)

(* The file's records join the report unless there are too many.           *)
Counted(sc, e, recs) == [Passed(sc) EXCEPT !.scanned = @ + 1, !.recs = @ \o recs, !.blind = @ \/ e.blind]

(* An unchanged file is taken from the cache; a changed one loses its      *)
(* entry before it is known whether it can be read.                        *)
NextFile ==
    /\ At("file") /\ scan.cand # <<>>
    /\ LET c == Head(scan.cand)
           e == mem[c.f]
           recs == Recent(e.recs, Ret)
       IN  \/ /\ Hit(e, c)
              /\ scan' = IF RecordsSoFar + Len(recs) > TotalRecords THEN Skipped(scan) ELSE Counted(scan, e, recs)
              /\ UNCHANGED mem
           \/ /\ ~Hit(e, c)
              /\ mem' = [mem EXCEPT ![c.f] = NoEntry]
              /\ LET sc == [scan EXCEPT !.changed = @ \/ e.there]
                     resumes == e.there /\ c.s > e.s
                 IN  scan' = IF c.s > FileBytes \/ (~resumes /\ c.s > scan.budget) THEN Skipped(sc)
                              ELSE [sc EXCEPT !.pc = "open", !.file = c, !.work = [NoWork EXCEPT !.entry = e]]
    /\ UNCHANGED <<world, faults, cache, remote, report, before>>

(* Mutant: what was provisional at the end of the file is kept on resuming. *)
Open_KeepsTail ==
    /\ At("open")
    /\ LET c == scan.file
           e == scan.work.entry
           d == disk[c.ino]
           tries == e.there /\ c.s > e.s /\ e.ino = c.ino
           same == tries /\ Guard(d, e.offset) = e.guard
           left == scan.budget - (IF tries THEN GuardBytes(e.offset) ELSE 0)
           start == IF same THEN e.offset ELSE 0
       IN  scan' = IF name[c.f] # c.ino \/ d.m # c.m THEN Skipped(scan)
                    ELSE IF left < 0 \/ c.s - 3 * start > left THEN Skipped([scan EXCEPT !.budget = left])
                    ELSE [scan EXCEPT !.pc = "read", !.budget = left,
                            !.work = [@ EXCEPT !.start = start,
                                               !.recs = IF same THEN e.recs ELSE <<>>,
                                               !.state = IF same THEN e.state ELSE initial_codex_state,
                                               !.gen = d.gen,
                                               !.blind = same /\ (e.blind \/ e.gen # d.gen)]]
    /\ UNCHANGED <<world, faults, cache, mem, remote, report, before>>

(* TranscriptCursor: the file must still be the one discovery saw; the     *)
(* cached position holds when the bytes before it do.                      *)
Open ==
    /\ At("open")
    /\ LET c == scan.file
           e == scan.work.entry
           d == disk[c.ino]
           tries == e.there /\ c.s > e.s /\ e.ino = c.ino
           same == tries /\ Guard(d, e.offset) = e.guard
           left == scan.budget - (IF tries THEN GuardBytes(e.offset) ELSE 0)
           start == IF same THEN e.offset ELSE 0
       IN  scan' = IF name[c.f] # c.ino \/ d.m # c.m THEN Skipped(scan)
                    ELSE IF left < 0 \/ c.s - 3 * start > left THEN Skipped([scan EXCEPT !.budget = left])
                    ELSE [scan EXCEPT !.pc = "read", !.budget = left,
                            !.work = [@ EXCEPT !.start = start,
                                               !.recs = IF same THEN SubSeq(e.recs, 1, Len(e.recs) - e.tail) ELSE <<>>,
                                               !.state = IF same THEN e.state ELSE initial_codex_state,
                                               !.gen = d.gen,
                                               !.blind = same /\ (e.blind \/ e.gen # d.gen)]]
    /\ UNCHANGED <<world, faults, cache, mem, remote, report, before>>

(* The lines up to the size discovery saw, parsed as they are read.  A     *)
(* file that has become shorter, a line of more than                       *)
(* MAX_TRANSCRIPT_LINE_BYTES or a record too many ends it there.           *)
Read ==
    /\ At("read")
    /\ LET c == scan.file
           d == disk[c.ino]
           w == scan.work
           p == ProviderOf[c.f]
           bytes == Prefix(d, c.s)
           lines == SubSeq(bytes.lines, w.start + 1, Len(bytes.lines))
           done == parse(p, lines, w.state, Ret)
           all == parse(p, lines \o bytes.tail, w.state, Ret)
           short == Size(d) < c.s
           left == (IF short THEN Size(d) ELSE c.s) - 3 * w.start
           bad == IF short THEN {}
                  ELSE {k \in 1..Len(lines \o bytes.tail) :
                          LET read == SubSeq(lines \o bytes.tail, 1, k)
                          IN  read[k].kind = "huge" \/ Len(parse(p, read, w.state, Ret).recs) > FileRecords}
           spent == Min({left} \cup {3 * k : k \in bad})
       IN  scan' = IF short \/ bad # {}
                    THEN Skipped([scan EXCEPT !.budget = @ - IF spent > 0 THEN spent ELSE 0])
                    ELSE [scan EXCEPT !.pc = "close", !.budget = @ - spent,
                            !.work = [@ EXCEPT !.start = c.s \div 3, !.state = done.state,
                                        !.recs = @ \o done.recs,
                                        !.tail = SubSeq(all.recs, Len(done.recs) + 1, Len(all.recs))]]
    /\ UNCHANGED <<world, faults, cache, mem, remote, report, before>>

(* The guard of the new position, and the check that nobody wrote.         *)
Close ==
    /\ At("close")
    /\ LET c == scan.file
           d == disk[c.ino]
           w == scan.work
           g == GuardBytes(w.start)
           merged == merge(ProviderOf[c.f], w.recs, w.tail, Ret)
           spent == [scan EXCEPT !.budget = @ - g]
       IN  IF \/ spent.budget < 0 \/ d.m # c.m \/ Len(merged.recs) > FileRecords
              \/ RecordsSoFar + Len(merged.recs) > TotalRecords
           THEN scan' = Skipped(spent) /\ UNCHANGED mem
           ELSE /\ scan' = Counted([spent EXCEPT !.changed = TRUE], w, merged.recs)
                /\ mem' = [mem EXCEPT ![c.f] =
                        [there |-> TRUE, s |-> c.s, m |-> c.m, t |-> c.t, ino |-> c.ino, recs |-> merged.recs,
                         tail |-> merged.tail, offset |-> w.start, guard |-> Guard(d, w.start), state |-> w.state,
                         gen |-> w.gen, blind |-> w.blind]]
    /\ UNCHANGED <<world, faults, cache, remote, report, before>>

SourceStatus == IF scan.skipped = 0 THEN "ok" ELSE IF scan.scanned > 0 THEN "partial" ELSE "failed"

ProviderDone ==
    /\ At("file") /\ scan.cand = <<>>
    /\ scan' = [scan EXCEPT !.pc = "discover", !.todo = Tail(@),
                   !.local = Append(@, [p |-> Head(scan.todo), status |-> SourceStatus, recs |-> scan.recs])]
    /\ UNCHANGED <<world, faults, cache, mem, remote, report, before>>

(* Mutant: the cache is written only after a scan that skipped nothing. *)
save_scan_cache_Whole ==
    /\ At("discover") /\ scan.todo = <<>>
    /\ LET old(f) == mem[f].there /\ (\/ mem[f].t + Retention < scan.stamp
                                      \/ ProviderOf[f] \in scan.walked /\ f \notin scan.live)
           kept == [f \in Files |-> IF old(f) THEN NoEntry ELSE mem[f]]
       IN  IF (scan.changed \/ kept # mem) /\ \A i \in 1..Len(scan.local) : scan.local[i].status = "ok"
           THEN Writes(kept) ELSE UNCHANGED <<cache, faults>>
    /\ Go("join")
    /\ mem' = [f \in Files |-> NoEntry]
    /\ UNCHANGED <<world, remote, report, before>>

(* Entries of files that are gone or too old are dropped, and the cache is *)
(* written when it changed; a failing write is ignored.                    *)
save_scan_cache ==
    /\ At("discover") /\ scan.todo = <<>>
    /\ LET old(f) == mem[f].there /\ (\/ mem[f].t + Retention < scan.stamp
                                      \/ ProviderOf[f] \in scan.walked /\ f \notin scan.live)
           kept == [f \in Files |-> IF old(f) THEN NoEntry ELSE mem[f]]
       IN  IF scan.changed \/ kept # mem THEN Writes(kept) ELSE UNCHANGED <<cache, faults>>
    /\ Go("join")
    /\ mem' = [f \in Files |-> NoEntry]
    /\ UNCHANGED <<world, remote, report, before>>

--------------------------------------------------------------------------------
(* t3_costs.collect, against a server that is not part of the program.     *)

ThreadAt(pc) == thread.pc = pc
ThreadGo(pc) == thread' = [thread EXCEPT !.pc = pc]
OtherParts == <<world, cache, scan, mem, report, before>>

(* The server's host is used too, its tokens expire, and the user pastes   *)
(* another pairing token, which names other state files.                   *)
T3Used    == setup.home = "other" /\ t3' = [t3 EXCEPT !.days = @ \cup {now}] /\ now \notin t3.days
             /\ UNCHANGED <<OtherParts, faults, auth, snap, thread>>
T3Expires == setup.home # "none" /\ Fault /\ t3' = [t3 EXCEPT !.access = @ + 1] /\ UNCHANGED <<OtherParts, auth, snap, thread>>
UserToken == /\ ThreadAt("none") /\ t3.spent /\ Fault
             /\ t3' = [t3 EXCEPT !.spent = FALSE] /\ auth' = 0 /\ snap' = NoSnap
             /\ UNCHANGED <<OtherParts, thread>>

FirstDay(k) == LET days == {l.at : l \in {m \in ever : m.key = k}}
               IN  CHOOSE d \in days : \A e \in days : d <= e
Usage(d) == IF setup.home = "local" THEN Cardinality({k \in Kept : FirstDay(k) = d})
            ELSE IF d \in t3.days THEN 1 ELSE 0

Summary(status) ==
    [there |-> TRUE, at |-> scan.stamp, status |-> status,
     buckets |-> [d \in Days |-> IF status = "ok" /\ d + Window >= scan.stamp /\ d <= scan.stamp THEN Usage(d) ELSE 0]]

(* An answer that validates, a rejected credential, or no usable answer.   *)
rpc(denied) ==
    \/ thread.access = t3.access
       /\ \E status \in {"ok", "partial", "failed"} :
             /\ IF status = "ok" THEN UNCHANGED faults ELSE Fault
             /\ thread' = [thread EXCEPT !.pc = "save", !.summary = Summary(status)]
    \/ thread.access # t3.access /\ ThreadGo(denied) /\ UNCHANGED faults
    \/ Fault /\ ThreadGo("fallback")

Ask   == ThreadAt("rpc") /\ rpc("exchange") /\ UNCHANGED <<OtherParts, t3, auth, snap>>
Again == ThreadAt("rpc2") /\ rpc("fallback") /\ UNCHANGED <<OtherParts, t3, auth, snap>>

(* A pairing token is good for one exchange.                               *)
exchange ==
    /\ ThreadAt("exchange")
    /\ \/ /\ ~t3.spent /\ t3' = [t3 EXCEPT !.spent = TRUE]
          /\ thread' = [thread EXCEPT !.pc = "auth", !.access = t3.access] /\ UNCHANGED faults
       \/ t3.spent /\ ThreadGo("fallback") /\ UNCHANGED <<t3, faults>>
       \/ Fault /\ ThreadGo("fallback") /\ UNCHANGED t3
    /\ UNCHANGED <<OtherParts, auth, snap>>

SaveAuth ==
    /\ ThreadAt("auth") /\ ThreadGo("rpc2")
    /\ \/ auth' = thread.access /\ UNCHANGED faults
       \/ Fault /\ UNCHANGED auth
    /\ UNCHANGED <<OtherParts, t3, snap>>

SaveSummary ==
    /\ ThreadAt("save") /\ ThreadGo("fresh")
    /\ \/ snap' = thread.summary /\ UNCHANGED faults
       \/ Fault /\ UNCHANGED snap
    /\ UNCHANGED <<OtherParts, t3, auth>>

restore_summary ==
    /\ ThreadAt("fallback")
    /\ thread' = IF snap.there /\ now <= snap.at + Retention
                  THEN [thread EXCEPT !.pc = "stale", !.summary = snap]
                  ELSE [thread EXCEPT !.pc = "unavailable"]
    /\ UNCHANGED <<OtherParts, faults, t3, auth, snap>>

--------------------------------------------------------------------------------
(* build_payload.                                                          *)

Since == scan.stamp - Window
T3Over == thread.pc \in {"none", "fresh", "stale", "unavailable"}

LocalSource(i) ==
    LET l == scan.local[i]
    IN  [id |-> i, p |-> l.p, print |-> <<"here", l.p>>, status |-> l.status,
         recs |-> SelectSeq(l.recs, LAMBDA r : r.at >= Since /\ r.at <= scan.stamp),
         buckets |-> NoSnap.buckets]

(* Mutant: a saved summary is not marked as stale. *)
RemoteSource_Fresh ==
    LET s == thread.summary
        stale == thread.pc = "stale" /\ s.status \notin {"missing", "failed"}
    IN  [id |-> 9, p |-> "claude", print |-> <<IF setup.home = "local" THEN "here" ELSE "there", "claude">>,
         status |-> s.status, recs |-> <<>>,
         buckets |-> [d \in Days |-> IF d >= Since /\ d <= scan.stamp THEN s.buckets[d] ELSE 0]]

RemoteSource ==
    LET s == thread.summary
        stale == thread.pc = "stale" /\ s.status \notin {"missing", "failed"}
    IN  [id |-> 9, p |-> "claude", print |-> <<IF setup.home = "local" THEN "here" ELSE "there", "claude">>,
         status |-> IF stale THEN "stale" ELSE s.status, recs |-> <<>>,
         buckets |-> [d \in Days |-> IF d >= Since /\ d <= scan.stamp THEN s.buckets[d] ELSE 0]]

candidates == {LocalSource(i) : i \in 1..Len(scan.local)}
              \cup (IF thread.pc \in {"fresh", "stale"} THEN {RemoteSource} ELSE {})

rank(c) == CASE c.status = "ok" -> 0 [] c.status = "partial" -> 1 [] c.status = "stale" -> 2 [] OTHER -> 3
Readable(c) == rank(c) < 3
Prefers(c, d) == rank(c) < rank(d) \/ (rank(c) = rank(d) /\ c.id < d.id)

(* Mutant: two sources of one folder are both included. *)
Included_Each(c) == Readable(c) /\ c \in candidates

(* Of the readable sources of one folder the best one is included.         *)
Included(c) == Readable(c) /\ \A d \in candidates : d.print = c.print /\ d # c /\ Readable(d) => Prefers(c, d)

(* Every period without a record is shown as empty, not as unknown.        *)
Complete ==
    /\ \E c \in candidates : Included(c)
    /\ thread.pc # "unavailable"
    /\ \A c \in candidates : c.status \in {"ok", "missing"} \/ (Readable(c) /\ ~Included(c))

Sum(b) == MapThenSumSet(LAMBDA d : b[d], Days)

Rows == MapThenSumSet(LAMBDA c : Len(c.recs) + Cardinality({d \in Days : c.buckets[d] > 0}), {c \in candidates : Included(c)})

(* A message that several files hold counts once.                          *)
aggregate_usage ==
    LET of(p) == {c \in candidates : Included(c) /\ c.p = p}
        rows(p) == FoldLeft(LAMBDA acc, c : acc \o c.recs, <<>>, SetToSeq(of(p)))
        count(p) == Len(Unique(p, rows(p))) + MapThenSumSet(LAMBDA c : Sum(c.buckets), of(p))
    IN  count("claude") + count("codex")

Ends ==
    /\ scan' = Resting /\ thread' = NoThread /\ before' = Nothing
    /\ UNCHANGED <<world, cache, t3, auth, snap>>

build_payload ==
    /\ At("join") /\ T3Over /\ Rows <= TotalRecords
    /\ report' = [made |-> TRUE, stamp |-> scan.stamp, complete |-> Complete, records |-> aggregate_usage]
    /\ Ends /\ UNCHANGED <<faults, mem>>

(* Too many records end in an error and the panel keeps what it showed.    *)
BackendError ==
    /\ At("join") /\ T3Over /\ Rows > TotalRecords
    /\ Ends /\ UNCHANGED <<faults, mem, report>>

(* The panel's timeout, or the session's end.                              *)
Kill ==
    /\ ~At("idle") /\ Fault
    /\ mem' = [f \in Files |-> NoEntry]
    /\ Ends /\ UNCHANGED report

--------------------------------------------------------------------------------
Next ==
    \/ \E f \in Files : AgentWrites(f)
    \/ \E f \in Files : AgentRewrites(f)
    \/ \E f \in Files : AgentReplaces(f)
    \/ \E f \in Files : AgentRemoves(f)
    \/ Tick
    \/ T3Used
    \/ T3Expires
    \/ UserToken
    \/ Begin
    \/ discover_transcripts
    \/ NextFile
    \/ Open
    \/ Read
    \/ Close
    \/ ProviderDone
    \/ save_scan_cache
    \/ Ask
    \/ Again
    \/ exchange
    \/ SaveAuth
    \/ SaveSummary
    \/ restore_summary
    \/ BackendError
    \/ build_payload
    \/ Kill

Spec == Init /\ [][Next]_vars

--------------------------------------------------------------------------------
(* What a fresh parse of a file makes of it.                               *)
Reference(p, c, ret) ==
    parse(p, c.lines \o (IF c.stage = "whole" THEN <<c.line>> ELSE <<>>), initial_codex_state, ret).recs

(* For Codex the cache repeats the fresh parse.  A Claude message may have *)
(* lines of several days, and its early ones pass the retention first: it  *)
(* is there once, from one of its lines, and always while all are recent.  *)
Agrees(p, recs, c, ret) ==
    LET full == Reference(p, c, 0)
        are(s) == {s[i] : i \in 1..Len(s)}
        all == {Record(l) : l \in are(c.lines) \cup {c.line}}
    IN  IF p = "codex" THEN recs = Reference(p, c, ret)
        ELSE /\ are(recs) \subseteq all /\ \A r \in are(recs) : r.at >= ret
             /\ \A i, j \in 1..Len(recs) : recs[i].key = recs[j].key => i = j
             /\ \A r \in are(full) : (\A q \in all : q.key = r.key => q.at >= ret)
                                     => \E q \in are(recs) : q.key = r.key

(* A file that was not written since it was cached is taken from the cache *)
(* on the next scan (scan_transcripts 762-778); however it was read, in    *)
(* one scan or resumed over many, with unfinished lines at its end, forks  *)
(* or repeats, the cache holds what a fresh parse of the file gives.       *)
(* Excused is a file that was rewritten so that its last bytes before the  *)
(* position are the same (blind).                                          *)
CacheIsParse ==
    \A f \in Files : \A e \in {cache[f], mem[f]} :
        (e.there /\ disk[e.ino].m = e.m /\ ~e.blind)
            => Agrees(ProviderOf[f], Recent(e.recs, now - Retention), disk[e.ino], now - Retention)

(* A message is in several files, or a T3 server reports the folder that   *)
(* was scanned here, or an old summary covers the days again: the total    *)
(* never counts more Claude messages than were written in the window.      *)
EverUsed(stamp) ==
    Cardinality({l.key : l \in {x \in ever : x.at + Window >= stamp /\ x.at <= stamp}})
    + (IF setup.home = "other" THEN Cardinality({d \in t3.days : d + Window >= stamp /\ d <= stamp}) ELSE 0)
CountedOnce ==
    (report.made /\ "codex" \notin setup.providers) => report.records <= EverUsed(report.stamp)

(* The panel draws a day without records as a day of no use only when the  *)
(* report is complete (build_payload 1489-1496): then it holds every       *)
(* message that its sources had when the scan began and have still, if no  *)
(* file was rewritten behind its guard (blind).                            *)
InTime(d) == d + Window >= scan.stamp /\ d <= scan.stamp
CompleteIsWhole ==
    [][(At("join") /\ report' # report /\ report'.complete /\ ~scan.blind) =>
          LET here == {k \in before.keys : \A l \in ever : l.key = k => InTime(l.at)}
          IN  report'.records >=
                 (IF "claude" \in setup.providers \/ setup.home = "local" THEN Cardinality(here) ELSE 0)
                 + (IF setup.home = "other" THEN Cardinality({d \in before.days : InTime(d)}) ELSE 0)]_vars

(* What the code's limits let a scan report and cache.                     *)
WithinLimits ==
    LET all == {f \in Files : Exists(f)}
        records(f) == Len(Reference(ProviderOf[f], disk[name[f]], 0))
    IN  /\ \A f \in all : /\ Size(disk[name[f]]) <= FileBytes /\ records(f) <= FileRecords
                          /\ \A i \in 1..Len(disk[name[f]].lines) : disk[name[f]].lines[i].kind # "huge"
        /\ MapThenSumSet(records, all) <= TotalRecords
        /\ Cardinality(all) <= CacheFiles
        /\ \A p \in {"claude", "codex"} : Cardinality(all \cap FilesOf(p)) <= WalkFiles

(* A backlog larger than a scan may read is read newest first, and what    *)
(* was read is not read again (scan_transcripts 762-829): unless something *)
(* was written or failed meanwhile, a scan that leaves anything out        *)
(* leaves less to the next one than it found.  Excused are transcripts     *)
(* beyond the limits of a file, of the records in all, of the walk or of   *)
(* the cache: these are left out of every scan, or read again in each.     *)
BacklogShrinks ==
    [][(/\ At("join") /\ scan'.pc = "idle" /\ before.events = writes + faults /\ faults' = faults
        /\ setup.home = "none" /\ WithinLimits)
          => report'.complete \/ Backlog < before.backlog]_vars

================================================================================
