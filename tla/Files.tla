-------------------------------- MODULE Files --------------------------------
(***************************************************************************)
(* The endpoints of api/files.rs: browse, which walks a directory entry by *)
(* entry, and read_file, which asks for the size of a file, compares it    *)
(* with a limit, and then opens and reads it piece by piece.  Each system  *)
(* call is a step, but for the fstat after the open, whose size is but a   *)
(* hint.  Other programs create, grow, shrink, replace and delete files in *)
(* between.  Paths are resolved before the first of these steps.           *)
(***************************************************************************)
EXTENDS Naturals, FiniteSets

CONSTANTS
  Slots,     \* requests
  Names,     \* the files of the directory
  MaxSize,   \* bound of the model: sizes are 0 .. MaxSize
  None

FilesAssumption == None \notin Names /\ MaxSize \in Nat

VARIABLES
  size,    \* the file system: the size of each file, or Gone
  req,     \* the requests
  past     \* history: the sizes each file had since each request arrived

vars == <<size, req, past>>

Gone == MaxSize + 1
Sizes == 0 .. Gone

\* limit is max_bytes, len the size that metadata gave, got what has been read so far and
\* held the size of the file that is open, once its name leads to it no more.  met are
\* the entries that the walk has passed and shown those it answers with.  fault is
\* history: a system call on something that is there has failed.
Idle == [pc |-> "idle", op |-> None, name |-> None, limit |-> 0, len |-> 0,
         got |-> 0, held |-> Gone, met |-> {}, shown |-> {}, answer |-> None, fault |-> FALSE]

Init ==
  /\ size \in [Names -> Sizes]
  /\ req = [r \in Slots |-> Idle]
  /\ past = [r \in Slots |-> [n \in Names |-> {}]]

\* The observer sees every state, of the files that a request is about, that it lives
\* through.
Observe ==
  past' = [r \in Slots |-> [n \in Names |->
    IF req'[r] = Idle \/ (req'[r].op = "read" /\ req'[r].name # n) THEN {}
    ELSE past[r][n] \cup {size[n], size'[n]}]]

Set(r, q) == req' = [req EXCEPT ![r] = q] /\ UNCHANGED size
Answered(r, a) == Set(r, [req[r] EXCEPT !.pc = "answered", !.answer = a])
Waits(r, c) == req[r].pc = c

\* None is the directory itself.
There(n) == n \in {None} \cup {m \in Names : size[m] # Gone}

-----------------------------------------------------------------------------
(* GET /api/files/read *)

\* resolve_safe_path: what does not exist is 404, a forbidden place 403, and neither
\* gets as far as the first call.
ReadArrives(r) ==
  /\ req[r] = Idle
  /\ \E n \in Names \cup {None}, l \in 0 .. MaxSize :
       LET q == [Idle EXCEPT !.op = "read", !.name = n, !.limit = l]
       IN \/ There(n) /\ Set(r, [q EXCEPT !.pc = "metadata"])
          \/ Set(r, [q EXCEPT !.pc = "answered", !.answer = "refused", !.fault = There(n)])

\* Mutant for ReadsAreJustified: the limit itself is too large.
MetadataStrict(r) ==
  /\ Waits(r, "metadata") /\ req[r].name # None /\ There(req[r].name)
  /\ LET len == size[req[r].name] IN
       IF len >= req[r].limit
       THEN Set(r, [req[r] EXCEPT !.pc = "answered", !.answer = "too_large", !.len = len])
       ELSE Set(r, [req[r] EXCEPT !.pc = "open", !.len = len])

Metadata(r) ==
  /\ Waits(r, "metadata") /\ There(req[r].name)
  /\ \/ req[r].name = None /\ Answered(r, "bad_request")
     \/ /\ req[r].name # None
        /\ LET len == size[req[r].name] IN
             IF len > req[r].limit
             THEN Set(r, [req[r] EXCEPT !.pc = "answered", !.answer = "too_large", !.len = len])
             ELSE Set(r, [req[r] EXCEPT !.pc = "open", !.len = len])

\* tokio::fs::read: open, and then read until a call returns nothing.
Open(r) ==
  /\ Waits(r, "open") /\ There(req[r].name)
  /\ Set(r, [req[r] EXCEPT !.pc = "read"])

\* How long the file that is open is now.
Length(r) == IF req[r].held = Gone THEN size[req[r].name] ELSE req[r].held

ReadSome(r) ==
  /\ Waits(r, "read")
  /\ \E k \in req[r].got + 1 .. Length(r) : Set(r, [req[r] EXCEPT !.got = k])

\* The end of the file, as long as it is by then: text or not.
ReadEnds(r) ==
  /\ Waits(r, "read") /\ Length(r) <= req[r].got
  /\ \E a \in {"content", "binary"} : Answered(r, a)

\* A call fails: 404 for metadata, 500 for the others.
CallFails(r) ==
  /\ req[r].pc \in {"metadata", "open", "read"}
  /\ Set(r, [req[r] EXCEPT !.pc = "answered", !.answer = "refused", !.fault = There(req[r].name)])

-----------------------------------------------------------------------------
(* GET /api/files *)

\* resolve_safe_path and read_dir: 403, 404, or the walk begins.
BrowseArrives(r) ==
  /\ req[r] = Idle
  /\ LET q == [Idle EXCEPT !.op = "browse"] IN
       \/ Set(r, [q EXCEPT !.pc = "walk"])
       \/ Set(r, [q EXCEPT !.pc = "answered", !.answer = "refused"])

\* next_entry gives a name; its metadata is a call of its own, and an entry that is gone
\* by then is skipped.
Entry(r) ==
  /\ Waits(r, "walk")
  /\ \E n \in Names \ req[r].met :
       /\ There(n)
       /\ Set(r, [req[r] EXCEPT !.pc = "stat", !.name = n, !.met = @ \cup {n}])

\* Mutant for StableEntriesAreListed: an entry that is gone ends the walk.
StatEnds(r) ==
  /\ Waits(r, "stat")
  /\ IF There(req[r].name)
     THEN Set(r, [req[r] EXCEPT !.pc = "walk",
                    !.shown = @ \cup {<<req[r].name, size[req[r].name]>>}])
     ELSE Answered(r, "listing")

Stat(r) ==
  /\ Waits(r, "stat")
  /\ \/ /\ There(req[r].name)
        /\ Set(r, [req[r] EXCEPT !.pc = "walk",
                     !.shown = @ \cup {<<req[r].name, size[req[r].name]>>}])
     \/ Set(r, [req[r] EXCEPT !.pc = "walk", !.fault = @ \/ There(req[r].name)])

\* The end of the directory: no file that was there all the time is left over.
WalkEnds(r) ==
  /\ Waits(r, "walk")
  /\ \A n \in Names \ req[r].met : Gone \in past[r][n] \cup {size[n]}
  /\ Answered(r, "listing")

\* `while let Ok(Some(entry))`: an error ends the walk like the end of the directory.
WalkBreaks(r) ==
  /\ Waits(r, "walk")
  /\ Set(r, [req[r] EXCEPT !.pc = "answered", !.answer = "listing", !.fault = TRUE])

-----------------------------------------------------------------------------
\* The client reads the answer or goes away: nothing of the task is left.
Ends(r) == req[r] # Idle /\ Set(r, Idle)

\* Whoever has n open keeps the file that the name no longer leads to.
Held(n) ==
  [r \in Slots |-> IF Waits(r, "read") /\ req[r].name = n
                   THEN [req[r] EXCEPT !.held = Length(r)] ELSE req[r]]

\* Another program writes a file, creates it, puts another one in its place or deletes
\* it.  Nobody writes what has no name.
Others ==
  \E n \in Names, s \in Sizes :
    /\ s # size[n]
    /\ size' = [size EXCEPT ![n] = s]
    /\ \/ s # Gone /\ UNCHANGED req
       \/ size[n] # Gone /\ req' = Held(n)

Read(r) ==
  ReadArrives(r) \/ Metadata(r) \/ Open(r) \/ ReadSome(r) \/ ReadEnds(r) \/ CallFails(r)

Browse(r) == BrowseArrives(r) \/ Entry(r) \/ Stat(r) \/ WalkEnds(r) \/ WalkBreaks(r)

Next ==
  /\ \/ \E r \in Slots : Read(r) \/ Browse(r) \/ Ends(r)
     \/ Others
  /\ Observe

Spec == Init /\ [][Next]_vars

-----------------------------------------------------------------------------
TypeOK ==
  /\ size \in [Names -> Sizes]
  /\ req \in [Slots -> [pc : {"idle", "metadata", "open", "read", "walk", "stat", "answered"},
                        op : {None, "read", "browse"}, name : Names \cup {None},
                        limit : 0 .. MaxSize, len : 0 .. MaxSize,
                        got : 0 .. MaxSize, held : Sizes,
                        met : SUBSET Names, shown : SUBSET (Names \X (0 .. MaxSize)),
                        answer : {None, "content", "binary", "too_large", "listing", "refused",
                                  "bad_request"},
                        fault : BOOLEAN]]
  /\ \A r \in Slots :
       /\ req[r].pc \in {"open", "read"} => req[r].name \in Names
       /\ req[r].pc = "read" => Length(r) # Gone

Tells(r, a) == req[r].pc = "answered" /\ req[r].op = "read" /\ req[r].answer = a

\* Each answer to a read was right of some moment since the request arrived: the file
\* had the size that came back, within the limit or beyond it, or was not there.  And
\* although it may have been written, replaced or deleted while it was read, what came
\* back of it is no shorter than the file once was, and no longer: all of it, if it
\* stayed as it was (read_file).
ReadsAreJustified ==
  \A r \in Slots :
    LET sizes == past[r][req[r].name] \ {Gone}
    IN /\ Tells(r, "content") \/ Tells(r, "binary") =>
            /\ req[r].len \in sizes /\ req[r].len <= req[r].limit
            /\ \E a \in sizes, b \in sizes : a <= req[r].got /\ req[r].got <= b
       /\ Tells(r, "too_large") => req[r].len \in sizes /\ req[r].len > req[r].limit
       /\ Tells(r, "refused") /\ ~req[r].fault => Gone \in past[r][req[r].name]

Listing(r) == req[r].pc = "answered" /\ req[r].answer = "listing"

\* A listing shows nothing that was not there, at that size, at some moment while the
\* directory was walked (browse).
ListedEntriesHeld ==
  \A r \in Slots : Listing(r) => \A x \in req[r].shown : x[2] \in past[r][x[1]]

\* Files that come and go do not hide those that stay: what was there all the time is
\* listed, unless a system call failed (browse).
StableEntriesAreListed ==
  \A r \in Slots : Listing(r) /\ ~req[r].fault =>
    \A n \in Names : Gone \notin past[r][n] => \E x \in req[r].shown : x[1] = n
=============================================================================
