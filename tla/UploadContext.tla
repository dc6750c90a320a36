--------------------------- MODULE UploadContext ----------------------------
(* The images of Claude Web: an image is uploaded in one exchange and named  *)
(* in a later one.  The hook keeps recent uploads by conversation and file,  *)
(* within a number, a size and an age, and attaches the ones a completion    *)
(* refers to, within the limits of one event.                                *)
EXTENDS Integers, Sequences, FiniteSets, SequencesExt, FiniteSetsExt, Functions

CONSTANTS
    Conversations, Files,
    MaxUploads, MaxUploadBytes,   \* of the cache
    MaxImages, MaxImageBytes,     \* of one event, and of one upload
    UploadTtl,
    NamedFiles,     \* lists of files that completions name
    InlineSizes,    \* lists of sizes of the images in requests, 0 for one that is none
    MaxUploadClock, MaxUploadCount   \* bounds of the model
ASSUME UploadAssumption ==
    /\ MaxUploads \in Nat \ {0} /\ MaxImages \in Nat /\ UploadTtl \in Nat \ {0}
    /\ MaxImageBytes \in Nat /\ MaxUploadBytes \in Nat /\ MaxImageBytes <= MaxUploadBytes
    /\ NamedFiles \subseteq Seq(Files) /\ InlineSizes \subseteq Seq(Nat)

VARIABLES
    uploads,        \* cached images by key
    insertion_order,
    cached_bytes,
    uploadClock,
    uploadCount,    \* uploads so far; also tells their contents apart
    latest,         \* per key, the number of the last upload recorded (history)
    attached        \* what the last completion got
uploadVars == <<uploads, insertion_order, cached_bytes, uploadClock, uploadCount, latest, attached>>

Keys == Conversations \X Files
Cache == [up |-> uploads, order |-> insertion_order, bytes |-> cached_bytes]
RemoveKey(c, key) ==
    IF key \in DOMAIN c.up
    THEN [c EXCEPT !.up = [k \in DOMAIN c.up \ {key} |-> c.up[k]], !.bytes = @ - c.up[key].size]
    ELSE c
\* An empty queue has nothing to pop.
PopFront(c) == IF c.order = <<>> THEN c ELSE RemoveKey([c EXCEPT !.order = Tail(@)], Head(c.order))
\* The cache after each number of pops.
Pops(c) ==
    LET after[n \in 0 .. Len(c.order)] == IF n = 0 THEN c ELSE PopFront(after[n - 1])
    IN  after

\* The queue is in the order of capture: pruning stops at the first image
\* that is still young.
Expired(c, key) == key \notin DOMAIN c.up \/ uploadClock - c.up[key].at >= UploadTtl
prune_expired(c) ==
    LET after == Pops(c)
    IN  after[Min({n \in 0 .. Len(c.order) :
                      n = Len(c.order) \/ ~Expired(after[n], Head(after[n].order))})]
Fits(c) == Cardinality(DOMAIN c.up) <= MaxUploads /\ c.bytes <= MaxUploadBytes
enforce_capacity(c) ==
    LET after == Pops(c)
    IN  after[Min({n \in 0 .. Len(c.order) : n = Len(c.order) \/ Fits(after[n])})]
\* VecDeque::retain: every place that is not the key's.
Retain(order, key) ==
    LET upTo[n \in 0 .. Len(order)] ==
            IF n = 0 THEN <<>>
            ELSE IF order[n] = key THEN upTo[n - 1] ELSE Append(upTo[n - 1], order[n])
    IN  upTo[Len(order)]
Added(c, key, size) ==
    LET image == [size |-> size, at |-> uploadClock, n |-> uploadCount + 1]
    IN  [up |-> [k \in DOMAIN c.up \cup {key} |-> IF k = key THEN image ELSE c.up[k]],
         order |-> Append(c.order, key), bytes |-> c.bytes + size]
\* Mutant: an image uploaded again keeps its old place in the queue.
KeepsPlace(c, key, size) ==
    LET new == Added(RemoveKey(c, key), key, size)
    IN  enforce_capacity(IF key \in DOMAIN c.up THEN [new EXCEPT !.order = c.order] ELSE new)
insert(c, key, size) ==
    LET gone == IF key \in DOMAIN c.up THEN [RemoveKey(c, key) EXCEPT !.order = Retain(@, key)] ELSE c
    IN  enforce_capacity(Added(gone, key, size))
Store(c) == uploads' = c.up /\ insertion_order' = c.order /\ cached_bytes' = c.bytes

UploadInit ==
    /\ uploads = <<>> /\ insertion_order = <<>> /\ cached_bytes = 0
    /\ uploadClock = 0 /\ uploadCount = 0
    /\ latest = [k \in Keys |-> 0]
    /\ attached = <<>>

\* A successful, complete upload of a recognised image.  Anything else (a
\* failed or truncated exchange, another host or path, a file that is no
\* image or too large) is not an upload and leaves the cache alone.
record_upload(key, size) ==
    /\ uploadCount < MaxUploadCount
    /\ Store(insert(prune_expired(Cache), key, size))
    /\ uploadCount' = uploadCount + 1
    /\ latest' = [latest EXCEPT ![key] = uploadCount + 1]
    /\ attached' = <<>>
    /\ UNCHANGED uploadClock

\* The images inside the request: those that are recognised and still fit,
\* until the event is full.
Total(sizes) == FoldFunction(+, 0, sizes)
push_base64(images, size) ==
    IF \/ Len(images) >= MaxImages \/ Total(images) >= MaxImageBytes
       \/ size = 0 \/ size > MaxImageBytes - Total(images)
    THEN images ELSE Append(images, size)
OwnImages(inline) ==
    LET upTo[n \in 0 .. Len(inline)] == IF n = 0 THEN <<>> ELSE push_base64(upTo[n - 1], inline[n])
    IN  upTo[Len(inline)]

\* A file that is named twice is read once.
claude_web_file_uuids(files) ==
    LET upTo[n \in 0 .. Len(files)] ==
            IF n = 0 THEN <<>>
            ELSE IF files[n] \in ToSet(upTo[n - 1]) THEN upTo[n - 1] ELSE Append(upTo[n - 1], files[n])
    IN  upTo[Len(files)]
\* The images of a completion: its own first, then the referenced ones that
\* fit, in the order they are named.
AttachOne(c, key, own, acc) ==
    IF \/ key \notin DOMAIN c.up \/ Len(acc.images) + Len(own) >= MaxImages
       \/ acc.bytes >= MaxImageBytes \/ key \in acc.seen
    THEN acc
    ELSE IF acc.bytes + c.up[key].size > MaxImageBytes THEN [acc EXCEPT !.seen = @ \cup {key}]
    ELSE [images |-> Append(acc.images, [key |-> key, n |-> c.up[key].n, size |-> c.up[key].size,
                                         age |-> uploadClock - c.up[key].at]),
          bytes |-> acc.bytes + c.up[key].size, seen |-> acc.seen \cup {key}]
Attach(c, conversation, names, own) ==
    LET upTo[n \in 0 .. Len(names)] ==
            IF n = 0 THEN [images |-> <<>>, bytes |-> Total(own), seen |-> {}]
            ELSE AttachOne(c, <<conversation, names[n]>>, own, upTo[n - 1])
    IN  upTo[Len(names)]
attach_referenced_images(conversation, files, inline) ==
    LET c == prune_expired(Cache)
        own == OwnImages(inline)
    IN  /\ Store(c)
        /\ attached' = <<[conversation |-> conversation, files |-> files, own |-> own,
                          images |-> Attach(c, conversation, claude_web_file_uuids(files), own).images]>>
        /\ UNCHANGED <<uploadClock, uploadCount, latest>>
UploadTick ==
    /\ uploadClock < MaxUploadClock
    /\ uploadClock' = uploadClock + 1
    /\ attached' = <<>>
    /\ UNCHANGED <<uploads, insertion_order, cached_bytes, uploadCount, latest>>
UploadNext ==
    \/ \E key \in Keys, size \in 1 .. MaxImageBytes : record_upload(key, size)
    \/ \E conversation \in Conversations, files \in NamedFiles, inline \in InlineSizes :
          attach_referenced_images(conversation, files, inline)
    \/ UploadTick
UploadSpec == UploadInit /\ [][UploadNext]_uploadVars

-----------------------------------------------------------------------------
(* Properties.                                                               *)

\* The queue, the map and the byte count agree and stay within the limits
\* however uploads, re-uploads and expiry interleave.
CacheConsistent ==
    /\ IsInjective(insertion_order)
    /\ ToSet(insertion_order) = DOMAIN uploads
    /\ cached_bytes = Total([k \in DOMAIN uploads |-> uploads[k].size])
    /\ Cardinality(DOMAIN uploads) <= MaxUploads /\ cached_bytes <= MaxUploadBytes
\* An image that is attached is the last one uploaded under that name in that
\* conversation, is not too old, and is attached once; the event stays within
\* its limits and nothing that would have fitted first was left out.
AttachedRight(e, cache, last) ==
    LET used == Total(e.own) + Total([n \in DOMAIN e.images |-> e.images[n].size])
        keys == {e.images[n].key : n \in DOMAIN e.images}
    IN  /\ \A n \in DOMAIN e.images :
               /\ \E f \in ToSet(e.files) : e.images[n].key = <<e.conversation, f>>
               /\ e.images[n].n = last[e.images[n].key]
               /\ e.images[n].age < UploadTtl
        /\ \A m, n \in DOMAIN e.images : e.images[m].key = e.images[n].key => m = n
        /\ Len(e.images) + Len(e.own) <= MaxImages /\ used <= MaxImageBytes
        /\ \A f \in ToSet(e.files) :
               <<e.conversation, f>> \in DOMAIN cache \ keys =>
                   \/ Len(e.images) + Len(e.own) = MaxImages
                   \/ used + cache[<<e.conversation, f>>].size > MaxImageBytes
AttachedExact == attached # <<>> => AttachedRight(attached[1], uploads, latest)

(* Uploads are remembered within their limits and attached only where they  *)
(* belong (claude_web/context.rs).                                           *)
UploadsExact == CacheConsistent /\ AttachedExact
=============================================================================
