------------------------------ MODULE Catalogue ------------------------------
(***************************************************************************)
(* Products, their media and the files behind them, under overlapping      *)
(* requests (ProductMediaService, the product-media and product-catalog    *)
(* commands).  Media are created and updated in a transaction; media and   *)
(* products are deleted outside of any, because the object store takes no  *)
(* part in one.                                                            *)
(*                                                                         *)
(* PostgreSQL runs at READ COMMITTED: a statement sees what was committed  *)
(* when it began, waits for the rows that another transaction has written, *)
(* and then looks at them again.  It locks all its rows at once here, and  *)
(* ON DELETE CASCADE is part of the delete.  File locks do not expire      *)
(* before their holder is done (FileLock is about that), files are         *)
(* uploaded elsewhere, all rows are of one company, and names, prices and  *)
(* descriptions are left out.                                              *)
(***************************************************************************)
EXTENDS Naturals, FiniteSets

CONSTANTS
  Product, File,
  Media,        \* ids of media; bound of the model: no more than these are made
  Type,         \* Type[f]: photo, video... as the MIME type of f says
  Unborn, Gone, \* no row yet, no row any more
  Idle,         \* a free request slot, or a free lock
  Request,      \* request slots of the server
  Shown,        \* the media at the beginning
  Faults,       \* what may go wrong: "erase", "stat", "crash"
  MaxRequests   \* bound of the model: requests in a behaviour

MediaRow == [file : File, product : Product, fav : BOOLEAN]

\* What a request keeps: a transaction that saves a medium, a deletion, a product to write.
SaveRequest ==
  [kind : {"insert", "update"}, at : {"aim", "clear", "write", "commit"}, m : Media, row : MediaRow,
   saw : BOOLEAN, sole : BOOLEAN, aim : SUBSET Media, held : SUBSET Media, late : BOOLEAN]
DeleteRequest ==
  [kind : {"media", "product"},
   at : {"look", "lock", "row", "stat", "erase", "probe", "recheck", "drop", "product", "ok"},
   p : Product \cup {Idle}, list : UNION {[S -> File] : S \in SUBSET Media},
   left : SUBSET Media, m : Media \cup {Idle}]
ProductRequest == [kind : {"save"}, p : Product]

Of(row) == <<row.product, Type[row.file]>>

\* The catalogue begins with one favourite of a type and product at most; the last three say
\* that a marker is none of the things it stands beside.
ASSUME CatalogueAssumption ==
  /\ Shown \in [Media -> MediaRow \cup {Unborn}]
  /\ \A m, n \in {k \in Media : Shown[k] # Unborn} :
       Shown[m].fav /\ Shown[n].fav /\ Of(Shown[m]) = Of(Shown[n]) => m = n
  /\ Faults \subseteq {"erase", "stat", "crash"}
  /\ MaxRequests \in Nat
  /\ Unborn \notin MediaRow /\ Gone \notin MediaRow /\ Unborn # Gone
  /\ Idle \notin SaveRequest \cup DeleteRequest \cup ProductRequest
  /\ Idle \notin Media \cup Request

VARIABLES
  products,   \* rows of products
  media,      \* committed rows of media
  files,      \* rows of files
  objects,    \* files that have an object in the store
  fileLock,   \* the request that holds the lock of a file
  req,        \* the requests under way, and what deletions answered
  asked,      \* requests so far
  raced,      \* history: <<product, type>> whose favourite was set in a race
  accident,   \* history: files whose store failed, was misread, or whose deletion crashed
  unlisted    \* history: files whose media went with a product that was read before them

rows == <<products, media, files>>
vars == <<products, media, files, objects, fileLock, req, asked, raced, accident, unlisted>>

Rows == {m \in Media : media[m] \notin {Unborn, Gone}}
Favorites(pt) == {m \in Rows : media[m].fav /\ Of(media[m]) = pt}

Open == {q \in Request : req[q] # Idle}
Saves == {q \in Open : req[q].kind \in {"insert", "update"}}
Deletes == {q \in Open : req[q].kind \in {"media", "product"}}

TypeOK ==
  /\ products \subseteq Product /\ files \subseteq File /\ objects \subseteq File
  /\ media \in [Media -> MediaRow \cup {Unborn, Gone}]
  /\ fileLock \in [File -> Request \cup {Idle}]
  /\ req \in [Request -> SaveRequest \cup DeleteRequest \cup ProductRequest \cup {Idle}]
  /\ asked \in 0..MaxRequests /\ accident \cup unlisted \subseteq File

Init ==
  /\ products = Product /\ files = File /\ objects = File
  /\ media = Shown
  /\ fileLock = [f \in File |-> Idle]
  /\ req = [q \in Request |-> Idle]
  /\ asked = 0 /\ raced = {} /\ accident = {} /\ unlisted = {}

(***************************** Transactions ********************************)
\* Rows that open transactions other than q have written.
HeldByOthers(q) == UNION {req[r].held : r \in Saves \ {q}}

\* Uncommitted writes refer to product p, or to file f.
ProductBusy(p) == \E r \in Saves : req[r].held # {} /\ req[r].row.product = p
FileBusy(f) ==
  \/ \E m \in UNION {req[r].held : r \in Saves} : m \in Rows /\ media[m].file = f
  \/ \E r \in Saves : req[r].at = "commit" /\ req[r].row.file = f

Ask(q, r) ==
  /\ req[q] = Idle /\ asked < MaxRequests
  /\ req' = [req EXCEPT ![q] = r]
  /\ asked' = asked + 1
  /\ UNCHANGED <<rows, objects, fileLock, raced, accident, unlisted>>

\* A transaction that will write row with the favourite fav, after clearing the others if sole.
Save(kind, m, row, fav, sole) ==
  [kind |-> kind, at |-> IF sole THEN "aim" ELSE "write", m |-> m, row |-> [row EXCEPT !.fav = fav],
   saw |-> kind = "update" /\ row.fav, sole |-> sole, aim |-> {}, held |-> {}, late |-> FALSE]

\* Faulty: the favourite is cleared only for a new medium, not for one that exists.
CreateOrPromote(q) ==
  \E p \in products, f \in File, fav \in BOOLEAN :
    LET same == {m \in Rows : media[m].file = f /\ media[m].product = p}
        fresh == {m \in Media : media[m] = Unborn /\ \A r \in Saves : req[r].m # m}
    IN  \/ \E m \in same : media[m].fav # fav /\ Ask(q, Save("update", m, media[m], fav, FALSE))
        \/ /\ same = {} /\ f \in files /\ fresh # {}
           /\ Ask(q, Save("insert", CHOOSE m \in fresh : TRUE, [file |-> f, product |-> p, fav |-> fav], fav, fav))

\* createProductMedia up to its first write: the product, a medium of this file and product
\* that exists already, and the file are read.
CreateMedia(q) ==
  \E p \in products, f \in File, fav \in BOOLEAN :
    LET same == {m \in Rows : media[m].file = f /\ media[m].product = p}
        fresh == {m \in Media : media[m] = Unborn /\ \A r \in Saves : req[r].m # m}
    IN  \/ \E m \in same : media[m].fav # fav /\ Ask(q, Save("update", m, media[m], fav, fav))
        \/ /\ same = {} /\ f \in files /\ fresh # {}
           /\ Ask(q, Save("insert", CHOOSE m \in fresh : TRUE, [file |-> f, product |-> p, fav |-> fav], fav, fav))

\* updateProductMedia up to its first write; an edit that does not mention the favourite
\* writes back the one it has read.
UpdateMedia(q) ==
  \E m \in Rows :
    \/ Ask(q, Save("update", m, media[m], TRUE, TRUE))
    \/ \E fav \in {FALSE, media[m].fav} : Ask(q, Save("update", m, media[m], fav, FALSE))

\* clearFavoriteForProductByType begins: it sees the favourites committed by now.
AimAtFavorites(q) ==
  /\ q \in Saves /\ req[q].at = "aim"
  /\ req' = [req EXCEPT ![q].at = "clear", ![q].aim = Favorites(Of(req[q].row))]
  /\ UNCHANGED <<rows, objects, fileLock, asked, raced, accident, unlisted>>

\* ... and writes those that still are, once no other transaction holds them.
ClearFavorites(q) ==
  /\ q \in Saves /\ req[q].at = "clear"
  /\ req[q].aim \cap HeldByOthers(q) = {}
  /\ req' = [req EXCEPT ![q].at = "write", ![q].held = {m \in req[q].aim \cap Rows : media[m].fav}]
  /\ UNCHANGED <<rows, objects, fileLock, asked, raced, accident, unlisted>>

\* The row itself, which needs its product and its file, or is there to be updated.
WriteMedia(q) ==
  LET r == req[q] IN
  /\ q \in Saves /\ r.at = "write"
  /\ r.m \notin HeldByOthers(q)
  /\ IF r.kind = "insert" THEN r.row.product \in products /\ r.row.file \in files ELSE r.m \in Rows
  /\ req' = [req EXCEPT ![q].at = "commit", ![q].held = @ \cup {r.m}]
  /\ UNCHANGED <<rows, objects, fileLock, asked, raced, accident, unlisted>>

\* Otherwise the write fails and the transaction is rolled back.
RejectMedia(q) ==
  LET r == req[q] IN
  /\ q \in Saves /\ r.at = "write"
  /\ IF r.kind = "insert" THEN r.row.product \notin products \/ r.row.file \notin files ELSE r.m \notin Rows
  /\ req' = [req EXCEPT ![q] = Idle]
  /\ UNCHANGED <<rows, objects, fileLock, asked, raced, accident, unlisted>>

\* The handler has read the file once more, which is there as long as its media are held.
\* raced records a favourite that an edit wrote back although it had been cleared since, and
\* one that was set while another was; late tells that to whoever has looked for favourites.
CommitMedia(q) ==
  LET r == req[q]
      pt == Of(r.row)
      new == r.row.fav /\ (r.m \notin Rows \/ ~ media[r.m].fav)
      unseen == {s \in Saves \ {q} : new /\ req[s].sole /\ req[s].at # "aim" /\ Of(req[s].row) = pt}
  IN
  /\ q \in Saves /\ r.at = "commit"
  /\ media' = [n \in Media |-> IF n = r.m THEN r.row
                               ELSE IF n \in r.held THEN [media[n] EXCEPT !.fav = FALSE] ELSE media[n]]
  /\ raced' = IF r.late \/ (new /\ r.saw /\ ~ r.sole) THEN raced \cup {pt}
              ELSE IF r.sole THEN raced \ {pt} ELSE raced
  /\ req' = [s \in Request |-> IF s = q THEN Idle ELSE IF s \in unseen THEN [req[s] EXCEPT !.late = TRUE] ELSE req[s]]
  /\ UNCHANGED <<products, files, objects, fileLock, asked, accident, unlisted>>

\* Products are written whole, from a copy that a request has read or an import has made:
\* one that was deleted in between is there again.
SaveProduct(q) == \E p \in Product : Ask(q, [kind |-> "save", p |-> p])
WriteProduct(q) ==
  /\ q \in Open /\ req[q].kind = "save"
  /\ products' = products \cup {req[q].p}
  /\ req' = [req EXCEPT ![q] = Idle]
  /\ UNCHANGED <<media, files, objects, fileLock, asked, raced, accident, unlisted>>

(***************************** Deletions ***********************************)
Deletion(kind, p, ms) ==
  [kind |-> kind, at |-> "look", p |-> p, list |-> [m \in ms |-> media[m].file], left |-> ms, m |-> Idle]

DeleteMedia(q) == \E m \in Rows : Ask(q, Deletion("media", Idle, {m}))

\* The media are listed once, before the first of them is deleted.
DeleteProduct(q) == \E p \in products : Ask(q, Deletion("product", p, {m \in Rows : media[m].product = p}))

At(q, place) == q \in Deletes /\ req[q].at = place

\* To the next of the media, or to what comes after the last: a request r as it goes on.
Onward(r) ==
  LET left == r.left \ {r.m} IN
  [r EXCEPT !.left = left, !.m = Idle,
            !.at = IF left # {} THEN "look" ELSE IF r.kind = "product" THEN "product" ELSE "ok"]

Go(q, r) == /\ req' = [req EXCEPT ![q] = r]
            /\ UNCHANGED <<rows, objects, fileLock, asked, raced, accident, unlisted>>

\* deleteProductMedia reads the medium, which may be gone, and its file.
LookAtMedia(q) ==
  /\ At(q, "look")
  /\ IF req[q].left = {} THEN Go(q, Onward(req[q]))
     ELSE \E m \in req[q].left :
            LET r == [req[q] EXCEPT !.m = m] IN
            Go(q, IF m \in Rows THEN [r EXCEPT !.at = "lock"] ELSE Onward(r))

FileAt(q) == req[q].list[req[q].m]
Unlocked(f) == [fileLock EXCEPT ![f] = Idle]

\* deleteFile tries once to lock the file, and reads its row under the lock.
LockFile(q) ==
  /\ At(q, "lock")
  /\ LET f == FileAt(q)
         got == fileLock[f] = Idle /\ f \in files
     IN  /\ fileLock' = IF got THEN [fileLock EXCEPT ![f] = q] ELSE fileLock
         /\ req' = [req EXCEPT ![q].at = IF got THEN "row" ELSE "probe"]
  /\ UNCHANGED <<rows, objects, asked, raced, accident, unlisted>>

\* Faulty: the state of the file is read from its row after that was deleted.
DeleteFileRowOnly(q) ==
  /\ At(q, "row") /\ ~ FileBusy(FileAt(q))
  /\ files' = files \ {FileAt(q)} /\ fileLock' = Unlocked(FileAt(q))
  /\ media' = [m \in Media |-> IF m \in Rows /\ media[m].file = FileAt(q) THEN Gone ELSE media[m]]
  /\ req' = [req EXCEPT ![q].at = "recheck"]
  /\ UNCHANGED <<products, objects, asked, raced, accident, unlisted>>

\* The row goes first, and takes the media of every product with it...
DeleteFileRow(q) ==
  /\ At(q, "row") /\ ~ FileBusy(FileAt(q))
  /\ files' = files \ {FileAt(q)}
  /\ media' = [m \in Media |-> IF m \in Rows /\ media[m].file = FileAt(q) THEN Gone ELSE media[m]]
  /\ req' = [req EXCEPT ![q].at = "stat"]
  /\ UNCHANGED <<products, objects, fileLock, asked, raced, accident, unlisted>>

\* objectExists of MinIO says no when the store does not answer.
Misread(f) == "stat" \in Faults /\ f \in objects

\* ... then the object, if the store has it.
StatObject(q) ==
  /\ At(q, "stat")
  /\ LET f == FileAt(q) IN
       \/ /\ f \in objects
          /\ Go(q, [req[q] EXCEPT !.at = "erase"])
       \/ /\ f \notin objects \/ Misread(f)
          /\ accident' = IF f \in objects THEN accident \cup {f} ELSE accident
          /\ fileLock' = Unlocked(f)
          /\ req' = [req EXCEPT ![q].at = "recheck"]
          /\ UNCHANGED <<rows, objects, asked, raced, unlisted>>

EraseObject(q) ==
  /\ At(q, "erase")
  /\ LET f == FileAt(q) IN
       /\ fileLock' = Unlocked(f)
       /\ \/ /\ objects' = objects \ {f}
             /\ req' = [req EXCEPT ![q].at = "recheck"]
             /\ UNCHANGED accident
          \/ /\ "erase" \in Faults
             /\ accident' = accident \cup {f}
             /\ req' = [req EXCEPT ![q].at = "probe"]
             /\ UNCHANGED objects
  /\ UNCHANGED <<rows, asked, raced, unlisted>>

\* Faulty: an error of deleteFile never stops the deletion.
ProbeNothing(q) ==
  /\ At(q, "probe")
  /\ Go(q, [req[q] EXCEPT !.at = "recheck"])

\* deleteFile failed: the deletion fails with it, unless the store says that there is no object.
ProbeObject(q) ==
  /\ At(q, "probe")
  /\ LET f == FileAt(q) IN
       \/ /\ f \in objects
          /\ Go(q, Idle)
       \/ /\ f \notin objects \/ Misread(f)
          /\ accident' = IF f \in objects THEN accident \cup {f} ELSE accident
          /\ req' = [req EXCEPT ![q].at = "recheck"]
          /\ UNCHANGED <<rows, objects, fileLock, asked, raced, unlisted>>

RereadMedia(q) ==
  /\ At(q, "recheck")
  /\ Go(q, IF req[q].m \in Rows THEN [req[q] EXCEPT !.at = "drop"] ELSE Onward(req[q]))

\* Deleting a row that is gone is an error (ProductMediaNotFoundException).
DropMedia(q) ==
  LET m == req[q].m IN
  /\ At(q, "drop")
  /\ \A r \in Saves : m \notin req[r].held
  /\ media' = IF m \in Rows THEN [media EXCEPT ![m] = Gone] ELSE media
  /\ req' = [req EXCEPT ![q] = IF m \in Rows THEN Onward(req[q]) ELSE Idle]
  /\ UNCHANGED <<products, files, objects, fileLock, asked, raced, accident, unlisted>>

\* The product, with the media it has got since they were listed.
DropProduct(q) ==
  LET p == req[q].p IN
  /\ At(q, "product")
  /\ IF p \notin products THEN Go(q, Idle)
     ELSE /\ ~ ProductBusy(p)
          /\ products' = products \ {p}
          /\ media' = [m \in Media |-> IF m \in Rows /\ media[m].product = p THEN Gone ELSE media[m]]
          /\ req' = [req EXCEPT ![q].at = "ok"]
          /\ unlisted' = unlisted \cup
               {media[m].file : m \in {n \in Rows \ DOMAIN req[q].list : media[n].product = p}}
          /\ UNCHANGED <<files, objects, fileLock, asked, raced, accident>>

Answer(q) == At(q, "ok") /\ Go(q, Idle)

\* The server stops; its transactions are rolled back and its locks expire.
Crash(q) ==
  /\ "crash" \in Faults /\ q \in Open
  /\ req' = [req EXCEPT ![q] = Idle]
  /\ fileLock' = [f \in File |-> IF fileLock[f] = q THEN Idle ELSE fileLock[f]]
  /\ accident' = IF At(q, "stat") \/ At(q, "erase") THEN accident \cup {FileAt(q)} ELSE accident
  /\ UNCHANGED <<rows, objects, asked, raced, unlisted>>

SaveStep(q) ==
  \/ CreateMedia(q) \/ UpdateMedia(q) \/ AimAtFavorites(q) \/ ClearFavorites(q) \/ WriteMedia(q)
  \/ RejectMedia(q) \/ CommitMedia(q) \/ SaveProduct(q) \/ WriteProduct(q)
DeleteStep(q) ==
  \/ DeleteMedia(q) \/ DeleteProduct(q) \/ LookAtMedia(q) \/ LockFile(q) \/ DeleteFileRow(q) \/ StatObject(q)
  \/ EraseObject(q) \/ ProbeObject(q) \/ RereadMedia(q) \/ DropMedia(q) \/ DropProduct(q) \/ Answer(q)

\* No more requests in this behaviour; what is under way has to end before.
Rest == asked = MaxRequests /\ Open = {} /\ UNCHANGED vars

Next == (\E q \in Request : SaveStep(q) \/ DeleteStep(q) \/ Crash(q)) \/ Rest
Spec == Init /\ [][Next]_vars

(***************************** Properties **********************************)
\* clearFavoriteForProductByType before every write of a favourite: a product has two
\* favourites of one type only after one of the two races that raced names.
FavoritesNeedRace ==
  \A pt \in {Of(media[m]) : m \in Rows} \ raced : \A m, n \in Favorites(pt) : m = n

\* deleteFile deletes the row before the object: an object without a row is one whose
\* deletion is under way, or that the store failed to delete, misread, or a crash left.
ObjectsHaveFiles ==
  \A f \in objects \ (files \cup accident) :
    \E q \in Deletes : req[q].at \in {"stat", "erase"} /\ FileAt(q) = f

\* deleteProductMedia and the deletion of a product with its media: when they answer, every
\* medium they were to delete is gone, and so is the row of its file, unless the medium went
\* with a product that had listed its media before, or the store had an accident.
DeletionIsComplete ==
  \A q \in Deletes : req[q].at = "ok" =>
    \A m \in DOMAIN req[q].list :
      m \notin Rows /\ (req[q].list[m] \in files => req[q].list[m] \in accident \cup unlisted)
==============================================================================
