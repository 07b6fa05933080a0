--------------------------- MODULE CatalogueProofs ---------------------------
(***************************************************************************)
(* What the deletions of media and products leave behind, for every number *)
(* of products, files, media and requests.  Everything rests on one        *)
(* inductive invariant: a transaction holds rows that are there, a         *)
(* deletion has dealt with all the media it no longer has to do.           *)
(***************************************************************************)
EXTENDS Catalogue, TLAPS

\* The row of file f is deleted, or a history says why it need not be.
Done(f) == f \notin files \/ f \in accident \cup unlisted

\* Existing rows that a transaction has written.
Written(q) == {n \in req[q].held : req[q].kind = "update" \/ n # req[q].m}

\* A transaction: nobody else makes the medium that it inserts, the one that it updates keeps
\* its product and file, the rows it has written stay, and so does the file it refers to.
SaveOK(q) ==
  /\ req[q].kind = "insert" =>
       media[req[q].m] = Unborn /\ \A r \in Saves \ {q} : req[r].m # req[q].m
  /\ req[q].kind = "update" =>
       /\ media[req[q].m] # Unborn
       /\ req[q].m \in Rows => /\ media[req[q].m].file = req[q].row.file
                                /\ media[req[q].m].product = req[q].row.product
  /\ \A n \in req[q].aim : media[n] # Unborn /\ (n \in Rows => media[n].product = req[q].row.product)
  /\ \A n \in Written(q) : n \in Rows /\ media[n].product = req[q].row.product
  /\ req[q].at = "commit" => /\ req[q].m \in req[q].held
                             /\ req[q].row.file \in files /\ req[q].row.product \in products

\* A deletion: a medium that is gone has taken the row of its file with it, and what is not
\* left to do is gone.
DeleteOK(q) ==
  /\ req[q].left \subseteq DOMAIN req[q].list
  /\ req[q].at \in {"lock", "row", "stat", "erase", "probe", "recheck", "drop"} => req[q].m \in req[q].left
  /\ req[q].at \in {"product", "ok"} => req[q].left = {}
  /\ req[q].at \in {"stat", "erase"} => FileAt(q) \notin files
  /\ req[q].at \in {"recheck", "drop"} => Done(FileAt(q))
  /\ \A m \in DOMAIN req[q].list :
       /\ media[m] # Unborn
       /\ m \in Rows => m \in req[q].left /\ media[m].file = req[q].list[m]
       /\ m \notin Rows => Done(req[q].list[m])

\* Foreign keys, and objects: a file has one until its row is deleted.
References ==
  /\ \A m \in Rows : media[m].file \in files /\ media[m].product \in products
  /\ files \subseteq objects

Inv ==
  /\ TypeOK /\ References
  /\ \A q \in Saves : SaveOK(q)
  /\ \A q \in Deletes : DeleteOK(q)

-----------------------------------------------------------------------------
(* What a step may do to the rows that others rely on.                      *)

Onwards ==
  /\ files' \subseteq files /\ accident \subseteq accident' /\ unlisted \subseteq unlisted'
  /\ \A m \in Media : media[m] # Unborn =>
       /\ media'[m] # Unborn
       /\ m \in Rows' => /\ m \in Rows
                         /\ media'[m].file = media[m].file /\ media'[m].product = media[m].product
       /\ m \in Rows /\ m \notin Rows' => \A f \in {media[m].file} : Done(f)'

\* A record of a request is of one of three forms.
LEMMA Forms ==
  ASSUME TypeOK
  PROVE  /\ \A q \in Saves : q \in Request /\ req[q] \in SaveRequest
         /\ \A q \in Deletes : q \in Request /\ req[q] \in DeleteRequest
         /\ \A q \in Open : req[q].kind = "save" => req[q] \in ProductRequest
         /\ Saves \cap Deletes = {}
BY DEF TypeOK, Saves, Deletes, Open, SaveRequest, DeleteRequest, ProductRequest

\* What a deletion has found stays true while others go on.
LEMMA DeleteKept ==
  ASSUME TypeOK, NEW q \in Deletes, DeleteOK(q), Onwards, req'[q] = req[q]
  PROVE  DeleteOK(q)'
<1>1. req[q] \in DeleteRequest
  BY Forms
<1>2. DOMAIN req[q].list \subseteq Media
  BY <1>1 DEF DeleteRequest
<1>3. \A f : Done(f) => Done(f)'
  BY DEF Done, Onwards
<1>4. FileAt(q)' = FileAt(q)
  BY DEF FileAt
<1>5. (\A m \in DOMAIN req[q].list :
       /\ media[m] # Unborn
       /\ m \in Rows => m \in req[q].left /\ media[m].file = req[q].list[m]
       /\ m \notin Rows => Done(req[q].list[m]))'
  <2> SUFFICES ASSUME NEW m \in DOMAIN req[q].list
               PROVE  /\ media'[m] # Unborn
                      /\ m \in Rows' => m \in req[q].left /\ media'[m].file = req[q].list[m]
                      /\ m \notin Rows' => Done(req[q].list[m])'
    BY Zenon
  <2>1. /\ m \in Media /\ media[m] # Unborn
        /\ m \in Rows => m \in req[q].left /\ media[m].file = req[q].list[m]
        /\ m \notin Rows => Done(req[q].list[m])
    BY <1>2 DEF DeleteOK
  <2>2. m \in Rows /\ m \notin Rows' => Done(req[q].list[m])'
    BY <2>1 DEF Onwards
  <2>3. /\ media'[m] # Unborn
        /\ m \in Rows' => m \in Rows /\ media'[m].file = media[m].file
    BY <2>1 DEF Onwards
  <2> QED
    BY <2>1, <2>2, <2>3, <1>3
<1> QED
  BY <1>3, <1>4, <1>5 DEF DeleteOK, Onwards

\* So does what a transaction relies on, if its rows and its file stay.
LEMMA SaveKept ==
  ASSUME TypeOK, NEW q \in Saves, SaveOK(q), Onwards,
         req'[q] = req[q] \/ req'[q] = [req[q] EXCEPT !.late = TRUE],
         Written(q) \subseteq Rows',
         req[q].kind = "insert" => media'[req[q].m] = Unborn /\ \A r \in Saves' \ {q} : req'[r].m # req[q].m,
         req[q].at = "commit" => req[q].row.file \in files' /\ req[q].row.product \in products'
  PROVE  SaveOK(q)'
<1>1. req[q] \in SaveRequest
  BY Forms
<1>2. /\ req'[q].kind = req[q].kind /\ req'[q].at = req[q].at /\ req'[q].m = req[q].m
      /\ req'[q].row = req[q].row /\ req'[q].aim = req[q].aim /\ req'[q].held = req[q].held
  BY <1>1 DEF SaveRequest
<1>3. Written(q)' = Written(q)
  BY <1>2 DEF Written
<1>4. Written(q) \subseteq Media /\ req[q].aim \subseteq Media /\ req[q].m \in Media
  BY <1>1 DEF Written, SaveRequest
<1>5. \A n \in Media : media[n] # Unborn /\ (n \in Rows => media[n].product = req[q].row.product) =>
                       media'[n] # Unborn /\ (n \in Rows' => media'[n].product = req[q].row.product)
  BY DEF Onwards
<1>6. \A n \in req[q].aim : media'[n] # Unborn /\ (n \in Rows' => media'[n].product = req[q].row.product)
  BY <1>4, <1>5 DEF SaveOK
<1>7. \A n \in Written(q) : n \in Rows' /\ media'[n].product = req[q].row.product
  <2>1. \A n \in Written(q) : n \in Rows /\ media[n].product = req[q].row.product /\ media[n] # Unborn
    BY DEF SaveOK, Rows
  <2> QED
    BY <2>1, <1>4, <1>5
<1>8. req[q].kind = "update" =>
        /\ media'[req[q].m] # Unborn
        /\ req[q].m \in Rows' => /\ media'[req[q].m].file = req[q].row.file
                                  /\ media'[req[q].m].product = req[q].row.product
  BY <1>4 DEF SaveOK, Onwards
<1> QED
  BY <1>2, <1>3, <1>6, <1>7, <1>8 DEF SaveOK

\* A step of q leaves the other requests as they were, but for what it tells transactions.
LEMMA OthersKept ==
  ASSUME Inv, NEW q \in Request, Onwards,
         \A s \in Request \ {q} : req'[s] = req[s] \/ (s \in Saves /\ req'[s] = [req[s] EXCEPT !.late = TRUE]),
         \A s \in Saves \ {q} :
           /\ Written(s) \subseteq Rows'
           /\ req[s].kind = "insert" => media'[req[s].m] = Unborn /\ (q \in Saves' => req'[q].m # req[s].m)
           /\ req[s].at = "commit" => req[s].row.file \in files' /\ req[s].row.product \in products',
         q \in Saves' => SaveOK(q)', q \in Deletes' => DeleteOK(q)'
  PROVE  (\A s \in Saves : SaveOK(s))' /\ (\A s \in Deletes : DeleteOK(s))'
<1>1. TypeOK
  BY DEF Inv
<1>2. ASSUME NEW s \in Saves', s # q
      PROVE  /\ s \in Saves /\ req'[s].m = req[s].m
             /\ req'[s] = req[s] \/ req'[s] = [req[s] EXCEPT !.late = TRUE]
  <2>1. s \in Request
    BY DEF Saves, Open
  <2>2. s \in Saves => req[s] \in SaveRequest
    BY <1>1, Forms
  <2>3. req'[s] = req[s] => s \in Saves
    BY <2>1 DEF Saves, Open
  <2> QED
    BY <1>2, <2>1, <2>2, <2>3 DEF SaveRequest
<1>3. ASSUME NEW s \in Saves', s # q PROVE SaveOK(s)'
  <2>1. /\ s \in Saves /\ SaveOK(s)
        /\ req'[s] = req[s] \/ req'[s] = [req[s] EXCEPT !.late = TRUE]
    BY <1>2, <1>3 DEF Inv
  <2>2. req[s].kind = "insert" => media'[req[s].m] = Unborn
    BY <2>1, <1>3
  <2>3. req[s].kind = "insert" => \A r \in Saves' \ {s} : req'[r].m # req[s].m
    <3> SUFFICES ASSUME req[s].kind = "insert", NEW r \in Saves' \ {s} PROVE req'[r].m # req[s].m
      OBVIOUS
    <3>1. CASE r = q
      BY <3>1, <2>1, <1>3
    <3>2. CASE r # q
      <4>1. r \in Saves \ {s} /\ req'[r].m = req[r].m
        BY <3>2, <1>2
      <4>2. \A t \in Saves \ {s} : req[t].m # req[s].m
        BY <2>1 DEF SaveOK
      <4> QED
        BY <4>1, <4>2
    <3> QED
      BY <3>1, <3>2
  <2>4. /\ Written(s) \subseteq Rows'
        /\ req[s].at = "commit" => req[s].row.file \in files' /\ req[s].row.product \in products'
    BY <2>1, <1>3
  <2> QED
    BY <1>1, <2>1, <2>2, <2>3, <2>4, SaveKept
<1>4. ASSUME NEW s \in Deletes', s # q PROVE DeleteOK(s)'
  <2>1. s \in Request
    BY DEF Deletes, Open
  <2>2. s \in Saves => req[s] \in SaveRequest
    BY <1>1, Forms
  <2>3. req'[s] = req[s] /\ s \in Deletes
    BY <1>4, <2>1, <2>2 DEF Deletes, Open, Saves, SaveRequest
  <2> QED
    BY <1>1, <2>3, DeleteKept DEF Inv
<1> QED
  BY <1>3, <1>4

\* Steps that change no row but, perhaps, bring products back.
LEMMA QuietKept ==
  ASSUME Inv, NEW q \in Request, UNCHANGED <<media, files>>,
         products \subseteq products', products' \subseteq Product,
         files \subseteq objects', accident \subseteq accident', unlisted \subseteq unlisted',
         \A s \in Request \ {q} : req'[s] = req[s],
         q \in Saves' => SaveOK(q)' /\ \A s \in Saves \ {q} : req[s].kind = "insert" => req'[q].m # req[s].m,
         q \in Deletes' => DeleteOK(q)'
  PROVE  (References /\ (\A s \in Saves : SaveOK(s)) /\ (\A s \in Deletes : DeleteOK(s)))'
<1>1. Onwards
  BY DEF Onwards, Rows
<1>2. \A s \in Saves \ {q} :
        /\ Written(s) \subseteq Rows'
        /\ req[s].kind = "insert" => media'[req[s].m] = Unborn /\ (q \in Saves' => req'[q].m # req[s].m)
        /\ req[s].at = "commit" => req[s].row.file \in files' /\ req[s].row.product \in products'
  BY DEF Inv, SaveOK, Rows
<1>3. References'
  BY DEF Inv, References, Rows
<1> QED
  BY <1>1, <1>2, <1>3, OthersKept, Zenon

-----------------------------------------------------------------------------
(* Transactions, step by step.                                              *)

LEMMA AskSaveKeeps ==
  ASSUME Inv, NEW q \in Request, NEW kind \in {"insert", "update"}, NEW m \in Media,
         NEW row \in MediaRow, NEW fav \in BOOLEAN, NEW sole \in BOOLEAN,
         Ask(q, Save(kind, m, row, fav, sole)),
         kind = "insert" => media[m] = Unborn /\ \A r \in Saves : req[r].m # m,
         kind = "update" => m \in Rows /\ row = media[m]
  PROVE  Inv'
<1> DEFINE new == Save(kind, m, row, fav, sole)
<1>1. TypeOK
  BY DEF Inv
<1>2. /\ new.kind = kind /\ new.at \in {"aim", "write"} /\ new.m = m
      /\ new.row.file = row.file /\ new.row.product = row.product
      /\ new.aim = {} /\ new.held = {}
  BY DEF Save, MediaRow
<1>3. new \in SaveRequest
  <2>1. [row EXCEPT !.fav = fav] \in MediaRow
    BY DEF MediaRow
  <2>2. (kind = "update" /\ row.fav) \in BOOLEAN
    OBVIOUS
  <2> QED
    BY <2>1, <2>2 DEF Save, SaveRequest
<1>4. req' = [req EXCEPT ![q] = new] /\ asked' \in 0..MaxRequests
  BY <1>1, CatalogueAssumption DEF Ask, TypeOK
<1>5. UNCHANGED <<products, media, files, objects, fileLock, accident, unlisted>>
  BY DEF Ask, rows
<1>6. req'[q] = new /\ \A s \in Request \ {q} : req'[s] = req[s]
  BY <1>1, <1>4 DEF TypeOK
<1>7. TypeOK'
  <2>1. req' \in [Request -> SaveRequest \cup DeleteRequest \cup ProductRequest \cup {Idle}]
    BY <1>1, <1>3, <1>4 DEF TypeOK
  <2> QED
    BY <1>1, <1>4, <1>5, <2>1 DEF TypeOK
<1>8. q \notin Saves /\ q \notin Deletes' /\ q \in Saves'
  BY <1>2, <1>3, <1>6, CatalogueAssumption DEF Ask, Saves, Deletes, Open
<1>9. \A s \in Saves : req[s].kind = "insert" => req[s].m # m
  <2>1. \A s \in Saves : SaveOK(s)
    BY DEF Inv
  <2> QED
    BY <2>1 DEF SaveOK, Rows
<1>10. SaveOK(q)'
  <2>1. \A r \in Saves' \ {q} : r \in Saves /\ req'[r] = req[r]
    BY <1>6 DEF Saves, Open
  <2>2. kind = "insert" => media'[m] = Unborn /\ \A r \in Saves' \ {q} : req'[r].m # m
    BY <2>1, <1>5
  <2>3. kind = "update" => media'[m] # Unborn /\ media'[m].file = row.file /\ media'[m].product = row.product
    BY <1>5 DEF Rows
  <2> QED
    BY <1>2, <1>6, <2>2, <2>3 DEF SaveOK, Written
<1>11. files \subseteq objects'
  BY <1>5 DEF Inv, References
<1>12. (References /\ (\A s \in Saves : SaveOK(s)) /\ (\A s \in Deletes : DeleteOK(s)))'
  BY <1>1, <1>2, <1>5, <1>6, <1>8, <1>9, <1>10, <1>11, QuietKept DEF TypeOK
<1> QED
  BY <1>7, <1>12 DEF Inv

\* A transaction that goes on with the medium and the row it began with.
LEMMA SaveGoesOn ==
  ASSUME Inv, NEW q \in Saves, NEW r \in SaveRequest,
         r.kind = req[q].kind, r.m = req[q].m, r.row = req[q].row,
         req' = [req EXCEPT ![q] = r],
         UNCHANGED <<rows, objects, fileLock, asked, raced, accident, unlisted>>,
         \A n \in r.aim : media[n] # Unborn /\ (n \in Rows => media[n].product = r.row.product),
         \A n \in r.held : r.kind = "update" \/ n # r.m => n \in Rows /\ media[n].product = r.row.product,
         r.at = "commit" => r.m \in r.held /\ r.row.file \in files /\ r.row.product \in products
  PROVE  Inv'
<1>1. TypeOK /\ SaveOK(q) /\ q \in Request
  BY DEF Inv, Saves, Open
<1>2. UNCHANGED <<products, media, files, objects, fileLock, asked, raced, accident, unlisted>>
  BY DEF rows
<1>3. req'[q] = r /\ \A s \in Request \ {q} : req'[s] = req[s]
  BY <1>1 DEF TypeOK
<1>4. TypeOK'
  <2>1. req' \in [Request -> SaveRequest \cup DeleteRequest \cup ProductRequest \cup {Idle}]
    BY <1>1 DEF TypeOK
  <2> QED
    BY <1>1, <1>2, <2>1 DEF TypeOK
<1>5. q \notin Deletes'
  BY <1>3 DEF Deletes, Saves, SaveRequest
<1>6. \A s \in Saves' \ {q} : s \in Saves /\ req'[s] = req[s]
  BY <1>3 DEF Saves, Open
<1>7. r.kind = "insert" => media[r.m] = Unborn /\ \A s \in Saves' \ {q} : req'[s].m # r.m
  <2>1. req[q].kind = "insert" => media[req[q].m] = Unborn /\ \A s \in Saves \ {q} : req[s].m # req[q].m
    BY <1>1 DEF SaveOK
  <2> QED
    BY <1>6, <2>1
<1>8. r.kind = "update" =>
        /\ media[r.m] # Unborn
        /\ r.m \in Rows => media[r.m].file = r.row.file /\ media[r.m].product = r.row.product
  BY <1>1 DEF SaveOK
<1>9. SaveOK(q)'
  BY <1>2, <1>3, <1>7, <1>8 DEF SaveOK, Written, Rows
<1>10. \A s \in Saves \ {q} : req[s].kind = "insert" => req'[q].m # req[s].m
  <2>1. \A s \in Saves \ {q} : SaveOK(s)
    BY DEF Inv
  <2> QED
    BY <2>1, <1>3 DEF SaveOK
<1>11. files \subseteq objects'
  BY <1>2 DEF Inv, References
<1>12. (References /\ (\A s \in Saves : SaveOK(s)) /\ (\A s \in Deletes : DeleteOK(s)))'
  BY <1>1, <1>2, <1>3, <1>5, <1>9, <1>10, <1>11, QuietKept DEF TypeOK
<1> QED
  BY <1>4, <1>12 DEF Inv

\* A request that ends leaves the invariant to the others.
LEMMA EndKeeps ==
  ASSUME Inv, NEW q \in Request,
         req' = [req EXCEPT ![q] = Idle],
         UNCHANGED <<media, files, objects, asked, raced, unlisted>>,
         products \subseteq products', products' \subseteq Product,
         fileLock' \in [File -> Request \cup {Idle}],
         accident \subseteq accident', accident' \subseteq File
  PROVE  Inv'
<1>1. TypeOK
  BY DEF Inv
<1>2. req'[q] = Idle /\ \A s \in Request \ {q} : req'[s] = req[s]
  BY <1>1 DEF TypeOK
<1>3. TypeOK'
  <2>1. req' \in [Request -> SaveRequest \cup DeleteRequest \cup ProductRequest \cup {Idle}]
    BY <1>1 DEF TypeOK
  <2> QED
    BY <1>1, <2>1 DEF TypeOK
<1>4. q \notin Saves' /\ q \notin Deletes'
  BY <1>2 DEF Saves, Deletes, Open
<1>5. files \subseteq objects'
  BY DEF Inv, References
<1>6. (References /\ (\A s \in Saves : SaveOK(s)) /\ (\A s \in Deletes : DeleteOK(s)))'
  BY <1>1, <1>2, <1>4, <1>5, QuietKept
<1> QED
  BY <1>3, <1>6 DEF Inv

LEMMA CreateMediaKeeps ==
  ASSUME Inv, NEW q \in Request, CreateMedia(q) PROVE Inv'
<1>1. PICK p \in products, f \in File, fav \in BOOLEAN :
        LET same == {m \in Rows : media[m].file = f /\ media[m].product = p}
            fresh == {m \in Media : media[m] = Unborn /\ \A r \in Saves : req[r].m # m}
        IN  \/ \E m \in same : media[m].fav # fav /\ Ask(q, Save("update", m, media[m], fav, fav))
            \/ /\ same = {} /\ f \in files /\ fresh # {}
               /\ Ask(q, Save("insert", CHOOSE m \in fresh : TRUE, [file |-> f, product |-> p, fav |-> fav], fav, fav))
  BY Zenon DEF CreateMedia
<1> DEFINE same == {m \in Rows : media[m].file = f /\ media[m].product = p}
           fresh == {m \in Media : media[m] = Unborn /\ \A r \in Saves : req[r].m # m}
<1>2. TypeOK
  BY DEF Inv
<1>3. ASSUME NEW m \in same, Ask(q, Save("update", m, media[m], fav, fav)) PROVE Inv'
  <2>1. m \in Media /\ m \in Rows /\ media[m] \in MediaRow
    BY <1>2 DEF Rows, TypeOK
  <2> QED
    BY <1>3, <2>1, AskSaveKeeps
<1>4. ASSUME fresh # {},
             Ask(q, Save("insert", CHOOSE m \in fresh : TRUE, [file |-> f, product |-> p, fav |-> fav], fav, fav))
      PROVE  Inv'
  <2> DEFINE m == CHOOSE n \in fresh : TRUE
  <2>1. m \in fresh
    BY <1>4
  <2>2. m \in Media /\ media[m] = Unborn /\ \A r \in Saves : req[r].m # m
    BY <2>1
  <2>3. [file |-> f, product |-> p, fav |-> fav] \in MediaRow
    BY <1>2 DEF TypeOK, MediaRow
  <2> HIDE DEF m, fresh
  <2>4. Ask(q, Save("insert", m, [file |-> f, product |-> p, fav |-> fav], fav, fav))
    BY <1>4 DEF m
  <2> QED
    BY <2>2, <2>3, <2>4, AskSaveKeeps
<1> QED
  BY <1>1, <1>3, <1>4

LEMMA UpdateMediaKeeps ==
  ASSUME Inv, NEW q \in Request, UpdateMedia(q) PROVE Inv'
<1>1. TypeOK
  BY DEF Inv
<1>2. PICK m \in Rows : \E fav \in BOOLEAN, sole \in BOOLEAN : Ask(q, Save("update", m, media[m], fav, sole))
  <2>1. \A m \in Rows : media[m].fav \in BOOLEAN
    BY <1>1 DEF Rows, TypeOK, MediaRow
  <2> QED
    BY <2>1 DEF UpdateMedia
<1>3. m \in Media /\ media[m] \in MediaRow
  BY <1>1 DEF Rows, TypeOK
<1> QED
  BY <1>2, <1>3, AskSaveKeeps

LEMMA AimAtFavoritesKeeps ==
  ASSUME Inv, NEW q \in Request, AimAtFavorites(q) PROVE Inv'
<1> DEFINE r == [req[q] EXCEPT !.at = "clear", !.aim = Favorites(Of(req[q].row))]
<1>1. q \in Saves /\ req[q] \in SaveRequest /\ req[q].at = "aim" /\ SaveOK(q)
  BY Forms DEF AimAtFavorites, Inv
<1>2. Favorites(Of(req[q].row)) \subseteq Media
  BY DEF Favorites, Rows
<1>3. /\ r \in SaveRequest /\ r.kind = req[q].kind /\ r.m = req[q].m /\ r.row = req[q].row
      /\ r.at = "clear" /\ r.aim = Favorites(Of(req[q].row)) /\ r.held = req[q].held
  BY <1>1, <1>2 DEF SaveRequest
<1>4. \A n \in r.aim : media[n] # Unborn /\ media[n].product = r.row.product
  BY <1>3 DEF Favorites, Of, Rows
<1>5. \A n \in r.held : r.kind = "update" \/ n # r.m => n \in Rows /\ media[n].product = r.row.product
  BY <1>1, <1>3 DEF SaveOK, Written
<1>6. /\ req' = [req EXCEPT ![q] = r]
      /\ UNCHANGED <<rows, objects, fileLock, asked, raced, accident, unlisted>>
  BY DEF AimAtFavorites
<1> HIDE DEF r
<1> QED
  BY <1>1, <1>3, <1>4, <1>5, <1>6, SaveGoesOn

LEMMA ClearFavoritesKeeps ==
  ASSUME Inv, NEW q \in Request, ClearFavorites(q) PROVE Inv'
<1> DEFINE cleared == {m \in req[q].aim \cap Rows : media[m].fav}
           r == [req[q] EXCEPT !.at = "write", !.held = cleared]
<1>1. q \in Saves /\ req[q] \in SaveRequest /\ SaveOK(q)
  BY Forms DEF ClearFavorites, Inv
<1>2. cleared \subseteq Media
  BY DEF Rows
<1>3. /\ r \in SaveRequest /\ r.kind = req[q].kind /\ r.m = req[q].m /\ r.row = req[q].row
      /\ r.at = "write" /\ r.aim = req[q].aim /\ r.held = cleared
  BY <1>1, <1>2 DEF SaveRequest
<1>4. \A n \in req[q].aim : media[n] # Unborn /\ (n \in Rows => media[n].product = req[q].row.product)
  BY <1>1 DEF SaveOK
<1>5. /\ req' = [req EXCEPT ![q] = r]
      /\ UNCHANGED <<rows, objects, fileLock, asked, raced, accident, unlisted>>
  BY DEF ClearFavorites
<1>6. \A n \in cleared : n \in Rows /\ media[n].product = req[q].row.product
  BY <1>4
<1> HIDE DEF r, cleared
<1> QED
  BY <1>1, <1>3, <1>4, <1>5, <1>6, SaveGoesOn

LEMMA WriteMediaKeeps ==
  ASSUME Inv, NEW q \in Request, WriteMedia(q) PROVE Inv'
<1> DEFINE r == [req[q] EXCEPT !.at = "commit", !.held = @ \cup {req[q].m}]
<1>1. q \in Saves /\ req[q] \in SaveRequest /\ SaveOK(q) /\ References
  BY Forms DEF WriteMedia, Inv
<1>2. /\ r \in SaveRequest /\ r.kind = req[q].kind /\ r.m = req[q].m /\ r.row = req[q].row
      /\ r.aim = req[q].aim /\ r.held = req[q].held \cup {req[q].m}
  BY <1>1 DEF SaveRequest
<1>3. /\ req' = [req EXCEPT ![q] = r]
      /\ UNCHANGED <<rows, objects, fileLock, asked, raced, accident, unlisted>>
  BY DEF WriteMedia
<1>4. req[q].kind = "update" => /\ req[q].m \in Rows
                                /\ media[req[q].m].product = req[q].row.product
                                /\ media[req[q].m].file = req[q].row.file
  BY <1>1 DEF WriteMedia, SaveOK
<1>5. req[q].row.product \in products /\ req[q].row.file \in files
  <2>1. CASE req[q].kind = "insert"
    BY <2>1 DEF WriteMedia
  <2>2. CASE req[q].kind = "update"
    BY <2>2, <1>1, <1>4 DEF References
  <2> QED
    BY <1>1, <2>1, <2>2 DEF SaveRequest
<1>6. \A n \in r.held : r.kind = "update" \/ n # r.m => n \in Rows /\ media[n].product = r.row.product
  <2>1. \A n \in req[q].held : req[q].kind = "update" \/ n # req[q].m => n \in Rows /\ media[n].product = req[q].row.product
    BY <1>1 DEF SaveOK, Written
  <2> QED
    BY <2>1, <1>2, <1>4
<1>7. \A n \in r.aim : media[n] # Unborn /\ (n \in Rows => media[n].product = r.row.product)
  BY <1>1, <1>2 DEF SaveOK
<1> HIDE DEF r
<1> QED
  BY <1>1, <1>2, <1>3, <1>5, <1>6, <1>7, SaveGoesOn

LEMMA CommitMediaKeeps ==
  ASSUME Inv, NEW q \in Request, CommitMedia(q) PROVE Inv'
<1> DEFINE r == req[q]
           unseen == {s \in Saves \ {q} : /\ r.row.fav /\ (r.m \notin Rows \/ ~ media[r.m].fav)
                                          /\ req[s].sole /\ req[s].at # "aim" /\ Of(req[s].row) = Of(r.row)}
<1>1. TypeOK /\ References /\ q \in Saves /\ r \in SaveRequest /\ r.at = "commit" /\ SaveOK(q)
  BY Forms DEF CommitMedia, Inv
<1>2. UNCHANGED <<products, files, objects, fileLock, asked, accident, unlisted>>
  BY DEF CommitMedia
<1>3. /\ r.m \in Media /\ r.row \in MediaRow /\ r.held \subseteq Media /\ r.kind \in {"insert", "update"}
      /\ r.row.file \in files /\ r.row.product \in products
      /\ \A n \in r.held : n # r.m => n \in Rows
  BY <1>1 DEF SaveRequest, SaveOK, Written
<1>4. /\ media'[r.m] = r.row
      /\ \A n \in Media \ {r.m} :
           IF n \in r.held THEN /\ media'[n] \in MediaRow /\ media'[n].file = media[n].file
                                /\ media'[n].product = media[n].product
                           ELSE media'[n] = media[n]
  <2>1. media' = [n \in Media |-> IF n = r.m THEN r.row
                                  ELSE IF n \in r.held THEN [media[n] EXCEPT !.fav = FALSE] ELSE media[n]]
    BY DEF CommitMedia
  <2>2. \A n \in r.held : n # r.m => media[n] \in MediaRow
    BY <1>1, <1>3 DEF Rows, TypeOK
  <2>3. \A row \in MediaRow : /\ [row EXCEPT !.fav = FALSE] \in MediaRow
                              /\ [row EXCEPT !.fav = FALSE].file = row.file
                              /\ [row EXCEPT !.fav = FALSE].product = row.product
    BY DEF MediaRow
  <2> QED
    BY <1>3, <2>1, <2>2, <2>3
<1>5. media' \in [Media -> MediaRow \cup {Unborn, Gone}]
  <2>1. \A n \in Media : media'[n] \in MediaRow \cup {Unborn, Gone}
    BY <1>1, <1>3, <1>4 DEF TypeOK
  <2>2. \E g : media' = [n \in Media |-> g[n]]
    <3>1. media' = [n \in Media |-> IF n = r.m THEN r.row
                                    ELSE IF n \in r.held THEN [media[n] EXCEPT !.fav = FALSE] ELSE media[n]]
      BY DEF CommitMedia
    <3>2. media' = [n \in Media |-> media'[n]]
      BY <3>1
    <3> QED
      BY <3>2
  <2> QED
    BY <2>1, <2>2
<1>6. /\ Rows' = Rows \cup {r.m}
      /\ \A n \in Rows : n # r.m => media'[n].file = media[n].file /\ media'[n].product = media[n].product
  BY <1>3, <1>4, CatalogueAssumption DEF Rows
<1>7. /\ req'[q] = Idle
      /\ \A s \in Request \ {q} : \/ req'[s] = req[s]
                                  \/ s \in Saves /\ req'[s] = [req[s] EXCEPT !.late = TRUE]
      /\ req' = [s \in Request |-> IF s = q THEN Idle
                                   ELSE IF s \in unseen THEN [req[s] EXCEPT !.late = TRUE] ELSE req[s]]
  <2>1. q \in Request
    OBVIOUS
  <2>2. req' = [s \in Request |-> IF s = q THEN Idle
                                  ELSE IF s \in unseen THEN [req[s] EXCEPT !.late = TRUE] ELSE req[s]]
    BY DEF CommitMedia
  <2> QED
    BY <2>2
<1>8. TypeOK'
  <2>1. \A s \in Saves : [req[s] EXCEPT !.late = TRUE] \in SaveRequest
    BY <1>1, Forms DEF SaveRequest
  <2>2. \A s \in Request : req'[s] \in SaveRequest \cup DeleteRequest \cup ProductRequest \cup {Idle}
    BY <1>1, <1>7, <2>1 DEF TypeOK
  <2>3. req' \in [Request -> SaveRequest \cup DeleteRequest \cup ProductRequest \cup {Idle}]
    BY <1>7, <2>2
  <2> QED
    BY <1>1, <1>2, <1>5, <2>3 DEF TypeOK
<1>9. r.kind = "update" => r.m \in Rows /\ media[r.m].file = r.row.file /\ media[r.m].product = r.row.product
  BY <1>1 DEF SaveOK, Written
<1>10. r.kind = "insert" => media[r.m] = Unborn
  BY <1>1 DEF SaveOK
<1>11. \A m \in Media : media[m] # Unborn =>
         /\ media'[m] # Unborn
         /\ m \in Rows' => /\ m \in Rows
                           /\ media'[m].file = media[m].file /\ media'[m].product = media[m].product
         /\ m \in Rows => m \in Rows'
  BY <1>3, <1>4, <1>6, <1>9, <1>10, CatalogueAssumption DEF Rows
<1>12. Onwards
  BY <1>2, <1>11 DEF Onwards
<1>13. \A s \in Saves \ {q} :
         /\ Written(s) \subseteq Rows'
         /\ req[s].kind = "insert" => media'[req[s].m] = Unborn
         /\ req[s].at = "commit" => req[s].row.file \in files' /\ req[s].row.product \in products'
  <2> SUFFICES ASSUME NEW s \in Saves \ {q}
               PROVE  /\ Written(s) \subseteq Rows'
                      /\ req[s].kind = "insert" => media'[req[s].m] = Unborn
                      /\ req[s].at = "commit" => req[s].row.file \in files' /\ req[s].row.product \in products'
    OBVIOUS
  <2>1. SaveOK(s) /\ req[s].m \in Media
    BY <1>1, Forms DEF Inv, SaveRequest
  <2>2. Written(s) \subseteq Rows
    BY <2>1 DEF SaveOK
  <2>3. req[s].kind = "insert" => media[req[s].m] = Unborn /\ req[s].m # r.m
    BY <1>1, <2>1 DEF SaveOK
  <2>4. req[s].kind = "insert" => req[s].m \notin r.held
    BY <1>3, <2>3 DEF Rows
  <2> QED
    BY <1>2, <1>4, <1>6, <2>1, <2>2, <2>3, <2>4 DEF SaveOK
<1>14. q \notin Saves' /\ q \notin Deletes'
  BY <1>7 DEF Saves, Deletes, Open
<1>15. References'
  BY <1>1, <1>2, <1>3, <1>4, <1>6 DEF References
<1>16. (\A s \in Saves : SaveOK(s))' /\ (\A s \in Deletes : DeleteOK(s))'
  BY <1>7, <1>12, <1>13, <1>14, OthersKept
<1> QED
  BY <1>8, <1>15, <1>16 DEF Inv

LEMMA ProductSavesKeep ==
  ASSUME Inv, NEW q \in Request, SaveProduct(q) \/ WriteProduct(q) \/ RejectMedia(q) PROVE Inv'
<1>1. TypeOK
  BY DEF Inv
<1>2. CASE SaveProduct(q)
  <2>1. PICK p \in Product : Ask(q, [kind |-> "save", p |-> p])
    BY <1>2 DEF SaveProduct
  <2>2. req' = [req EXCEPT ![q] = [kind |-> "save", p |-> p]] /\ asked' \in 0..MaxRequests
    BY <1>1, <2>1, CatalogueAssumption DEF Ask, TypeOK
  <2>3. UNCHANGED <<products, media, files, objects, fileLock, accident, unlisted>>
    BY <2>1 DEF Ask, rows
  <2>4. req'[q] = [kind |-> "save", p |-> p] /\ \A s \in Request \ {q} : req'[s] = req[s]
    BY <1>1, <2>2 DEF TypeOK
  <2>5. TypeOK'
    <3>1. [kind |-> "save", p |-> p] \in ProductRequest
      BY DEF ProductRequest
    <3>2. req' \in [Request -> SaveRequest \cup DeleteRequest \cup ProductRequest \cup {Idle}]
      BY <1>1, <2>2, <3>1 DEF TypeOK
    <3> QED
      BY <1>1, <2>2, <2>3, <3>2 DEF TypeOK
  <2>6. q \notin Saves' /\ q \notin Deletes'
    BY <2>4 DEF Saves, Deletes
  <2>7. files \subseteq objects' /\ products' \subseteq Product
    BY <1>1, <2>3 DEF Inv, References, TypeOK
  <2>8. (References /\ (\A s \in Saves : SaveOK(s)) /\ (\A s \in Deletes : DeleteOK(s)))'
    BY <2>3, <2>4, <2>6, <2>7, QuietKept
  <2> QED
    BY <2>5, <2>8 DEF Inv
<1>3. CASE WriteProduct(q)
  <2>1. req[q].p \in Product
    BY <1>1, <1>3, Forms DEF WriteProduct, ProductRequest
  <2>2. products \subseteq products' /\ products' \subseteq Product
    BY <1>1, <1>3, <2>1 DEF WriteProduct, TypeOK
  <2>3. fileLock' \in [File -> Request \cup {Idle}] /\ accident \subseteq accident' /\ accident' \subseteq File
    BY <1>1, <1>3 DEF WriteProduct, TypeOK
  <2> QED
    BY <1>3, <2>2, <2>3, EndKeeps DEF WriteProduct
<1>4. CASE RejectMedia(q)
  <2>1. UNCHANGED <<products, media, files, objects, fileLock, asked, raced, accident, unlisted>>
    BY <1>4 DEF RejectMedia, rows
  <2>2. req' = [req EXCEPT ![q] = Idle]
    BY <1>4 DEF RejectMedia
  <2>3. fileLock' \in [File -> Request \cup {Idle}] /\ accident' \subseteq File /\ products' \subseteq Product
    BY <1>1, <2>1 DEF TypeOK
  <2> QED
    BY <2>1, <2>2, <2>3, EndKeeps
<1> QED
  BY <1>2, <1>3, <1>4

-----------------------------------------------------------------------------
(* Deletions, step by step.                                                 *)

\* A deletion has got to r: what it no longer has to do is gone.
LEMMA DeletionKept ==
  ASSUME Inv, NEW q \in Deletes, NEW r \in DeleteRequest, Onwards, req'[q] = r,
         r.list = req[q].list, r.left \subseteq req[q].left,
         \A m \in req[q].left \ r.left : m \notin Rows',
         r.at \in {"lock", "row", "stat", "erase", "probe", "recheck", "drop"} => r.m \in r.left,
         r.at \in {"product", "ok"} => r.left = {},
         r.at \in {"stat", "erase"} => r.list[r.m] \notin files',
         r.at \in {"recheck", "drop"} => r.list[r.m] \notin files' \/ r.list[r.m] \in accident' \cup unlisted'
  PROVE  DeleteOK(q)'
<1>1. TypeOK /\ DeleteOK(q) /\ req[q] \in DeleteRequest
  BY Forms DEF Inv
<1>2. DOMAIN r.list \subseteq Media
  BY <1>1 DEF DeleteRequest
<1>3. FileAt(q)' = r.list[r.m]
  BY DEF FileAt
<1>4. \A m \in DOMAIN r.list :
        /\ media'[m] # Unborn
        /\ m \in Rows' => m \in r.left /\ media'[m].file = r.list[m]
        /\ m \notin Rows' => r.list[m] \notin files' \/ r.list[m] \in accident' \cup unlisted'
  <2> SUFFICES ASSUME NEW m \in DOMAIN r.list
               PROVE  /\ media'[m] # Unborn
                      /\ m \in Rows' => m \in r.left /\ media'[m].file = r.list[m]
                      /\ m \notin Rows' => r.list[m] \notin files' \/ r.list[m] \in accident' \cup unlisted'
    OBVIOUS
  <2>1. /\ m \in Media /\ media[m] # Unborn
        /\ m \in Rows => m \in req[q].left /\ media[m].file = r.list[m]
        /\ m \notin Rows => Done(r.list[m])
    BY <1>1, <1>2 DEF DeleteOK
  <2>2. /\ media'[m] # Unborn
        /\ m \in Rows' => m \in Rows /\ media'[m].file = media[m].file
        /\ m \in Rows /\ m \notin Rows' => \A f \in {media[m].file} : Done(f)'
    BY <2>1 DEF Onwards
  <2>3. Done(r.list[m]) => r.list[m] \notin files' \/ r.list[m] \in accident' \cup unlisted'
    BY DEF Done, Onwards
  <2>4. m \in Rows /\ m \notin Rows' => r.list[m] \notin files' \/ r.list[m] \in accident' \cup unlisted'
    BY <2>1, <2>2 DEF Done
  <2> QED
    BY <2>1, <2>2, <2>3, <2>4
<1>5. r.left \subseteq DOMAIN r.list
  BY <1>1 DEF DeleteOK
<1> QED
  BY <1>3, <1>4, <1>5 DEF DeleteOK, Done

\* A step of a deletion that changes no row.
LEMMA DeletionGoesOn ==
  ASSUME Inv, NEW q \in Request, NEW r \in DeleteRequest,
         req' = [req EXCEPT ![q] = r],
         UNCHANGED <<products, media, files, unlisted>>, asked' \in 0..MaxRequests,
         fileLock' \in [File -> Request \cup {Idle}],
         objects' \subseteq File, files \subseteq objects',
         accident \subseteq accident', accident' \subseteq File,
         DeleteOK(q)'
  PROVE  Inv'
<1>1. TypeOK
  BY DEF Inv
<1>2. req'[q] = r /\ \A s \in Request \ {q} : req'[s] = req[s]
  BY <1>1 DEF TypeOK
<1>3. TypeOK'
  <2>1. req' \in [Request -> SaveRequest \cup DeleteRequest \cup ProductRequest \cup {Idle}]
    BY <1>1 DEF TypeOK
  <2> QED
    BY <1>1, <2>1 DEF TypeOK
<1>4. q \notin Saves'
  BY <1>2 DEF Saves, DeleteRequest
<1>5. products' \subseteq Product
  BY <1>3 DEF TypeOK
<1>6. (References /\ (\A s \in Saves : SaveOK(s)) /\ (\A s \in Deletes : DeleteOK(s)))'
  BY <1>2, <1>4, <1>5, QuietKept
<1> QED
  BY <1>3, <1>6 DEF Inv

LEMMA OnwardForm ==
  ASSUME NEW r \in DeleteRequest
  PROVE  /\ Onward(r) \in DeleteRequest /\ Onward(r).list = r.list /\ Onward(r).left = r.left \ {r.m}
         /\ Onward(r).at \in {"look", "product", "ok"}
         /\ Onward(r).at # "look" => Onward(r).left = {}
BY DEF Onward, DeleteRequest

LEMMA AskDeletionKeeps ==
  ASSUME Inv, NEW q \in Request, DeleteMedia(q) \/ DeleteProduct(q) PROVE Inv'
<1>1. TypeOK
  BY DEF Inv
<1>2. PICK kind \in {"media", "product"}, p \in Product \cup {Idle}, ms \in SUBSET Rows :
        Ask(q, Deletion(kind, p, ms))
  <2>1. CASE DeleteMedia(q)
    <3>1. PICK m \in Rows : Ask(q, Deletion("media", Idle, {m}))
      BY <2>1 DEF DeleteMedia
    <3>2. {m} \in SUBSET Rows
      OBVIOUS
    <3> QED
      BY <3>1, <3>2
  <2>2. CASE DeleteProduct(q)
    <3>1. PICK p \in products : Ask(q, Deletion("product", p, {m \in Rows : media[m].product = p}))
      BY <2>2 DEF DeleteProduct
    <3>2. {m \in Rows : media[m].product = p} \in SUBSET Rows /\ p \in Product
      BY <1>1 DEF TypeOK
    <3> QED
      BY <3>1, <3>2
  <2> QED
    BY <2>1, <2>2
<1> DEFINE r == Deletion(kind, p, ms)
<1>3. /\ r.at = "look" /\ r.left = ms /\ r.list = [m \in ms |-> media[m].file]
      /\ r \in DeleteRequest
  <2>1. ms \subseteq Media /\ \A m \in ms : media[m].file \in File
    BY <1>1 DEF Rows, TypeOK, MediaRow
  <2>2. [m \in ms |-> media[m].file] \in [ms -> File]
    BY <2>1
  <2>3. [m \in ms |-> media[m].file] \in UNION {[S -> File] : S \in SUBSET Media}
    BY <2>1, <2>2
  <2> QED
    BY <2>1, <2>3 DEF Deletion, DeleteRequest
<1>4. req' = [req EXCEPT ![q] = r] /\ asked' \in 0..MaxRequests
  BY <1>1, <1>2, CatalogueAssumption DEF Ask, TypeOK
<1>5. UNCHANGED <<products, media, files, objects, fileLock, accident, unlisted>>
  BY <1>2 DEF Ask, rows
<1>6. req'[q] = r
  BY <1>1, <1>4 DEF TypeOK
<1> HIDE DEF r
<1>7. DeleteOK(q)'
  <2>1. \A m \in ms : media[m] # Unborn /\ m \in Rows
    BY DEF Rows
  <2>2. \A m \in DOMAIN r.list : m \in ms /\ r.list[m] = media[m].file
    BY <1>3
  <2>3. \A m \in DOMAIN r.list :
          /\ media'[m] # Unborn
          /\ m \in Rows' => m \in r.left /\ media'[m].file = r.list[m]
          /\ m \in Rows'
    BY <1>3, <1>5, <2>1, <2>2 DEF Rows
  <2>4. DOMAIN r.list = ms
    BY <1>3
  <2> QED
    BY <1>3, <1>6, <2>3, <2>4 DEF DeleteOK
<1>8. /\ fileLock' \in [File -> Request \cup {Idle}] /\ objects' \subseteq File
      /\ files \subseteq objects' /\ accident \subseteq accident' /\ accident' \subseteq File
  BY <1>1, <1>5 DEF TypeOK, Inv, References
<1> QED
  BY <1>3, <1>4, <1>5, <1>7, <1>8, DeletionGoesOn

\* Steps that only move a deletion on.
LEMMA GoKeeps ==
  ASSUME Inv, NEW q \in Deletes, NEW r \in DeleteRequest, Go(q, r),
         r.list = req[q].list, r.left \subseteq req[q].left,
         \A m \in req[q].left \ r.left : m \notin Rows,
         r.at \in {"lock", "row", "stat", "erase", "probe", "recheck", "drop"} => r.m \in r.left,
         r.at \in {"product", "ok"} => r.left = {},
         r.at \in {"stat", "erase"} => r.list[r.m] \notin files,
         r.at \in {"recheck", "drop"} => r.list[r.m] \notin files \/ r.list[r.m] \in accident \cup unlisted
  PROVE  Inv'
<1>1. TypeOK /\ q \in Request
  BY DEF Inv, Deletes, Open
<1>2. /\ req' = [req EXCEPT ![q] = r]
      /\ UNCHANGED <<products, media, files, objects, fileLock, asked, accident, unlisted>>
  BY DEF Go, rows
<1>3. Onwards
  BY <1>2 DEF Onwards, Rows
<1>4. req'[q] = r /\ Rows' = Rows
  BY <1>1, <1>2 DEF TypeOK, Rows
<1>5. DeleteOK(q)'
  BY <1>2, <1>3, <1>4, DeletionKept
<1>6. /\ fileLock' \in [File -> Request \cup {Idle}] /\ objects' \subseteq File /\ asked' \in 0..MaxRequests
      /\ files \subseteq objects' /\ accident \subseteq accident' /\ accident' \subseteq File
  BY <1>1, <1>2 DEF TypeOK, Inv, References
<1> QED
  BY <1>1, <1>2, <1>5, <1>6, DeletionGoesOn

LEMMA GoIdleKeeps ==
  ASSUME Inv, NEW q \in Request, Go(q, Idle) PROVE Inv'
<1>1. UNCHANGED <<products, media, files, objects, fileLock, asked, raced, accident, unlisted>>
  BY DEF Go, rows
<1>2. fileLock' \in [File -> Request \cup {Idle}] /\ accident' \subseteq File /\ products' \subseteq Product
  BY <1>1 DEF Inv, TypeOK
<1> QED
  BY <1>1, <1>2, EndKeeps DEF Go

LEMMA LookAtMediaKeeps ==
  ASSUME Inv, NEW q \in Request, LookAtMedia(q) PROVE Inv'
<1>1. q \in Deletes /\ req[q] \in DeleteRequest /\ DeleteOK(q)
  BY Forms DEF LookAtMedia, At, Inv
<1>2. CASE req[q].left = {}
  <2>1. Go(q, Onward(req[q]))
    BY <1>2 DEF LookAtMedia
  <2> QED
    BY <1>1, <1>2, <2>1, OnwardForm, GoKeeps
<1>3. ASSUME NEW m \in req[q].left, m \in Rows, Go(q, [[req[q] EXCEPT !.m = m] EXCEPT !.at = "lock"]) PROVE Inv'
  <2> DEFINE r == [[req[q] EXCEPT !.m = m] EXCEPT !.at = "lock"]
  <2>1. m \in Media
    BY <1>1, <1>3 DEF DeleteRequest
  <2>2. r \in DeleteRequest /\ r.list = req[q].list /\ r.left = req[q].left /\ r.m = m /\ r.at = "lock"
    BY <1>1, <2>1 DEF DeleteRequest
  <2> HIDE DEF r
  <2>3. Go(q, r)
    BY <1>3 DEF r
  <2> QED
    BY <1>1, <1>3, <2>2, <2>3, GoKeeps
<1>4. ASSUME NEW m \in req[q].left, m \notin Rows, Go(q, Onward([req[q] EXCEPT !.m = m])) PROVE Inv'
  <2> DEFINE r == [req[q] EXCEPT !.m = m]
  <2>1. m \in Media
    BY <1>1, <1>4 DEF DeleteRequest
  <2>2. r \in DeleteRequest /\ r.list = req[q].list /\ r.left = req[q].left /\ r.m = m
    BY <1>1, <2>1 DEF DeleteRequest
  <2> HIDE DEF r
  <2>3. Go(q, Onward(r))
    BY <1>4 DEF r
  <2> QED
    BY <1>1, <1>4, <2>2, <2>3, OnwardForm, GoKeeps
<1> QED
  <2>1. CASE req[q].left # {}
    <3>1. PICK m \in req[q].left :
            Go(q, IF m \in Rows THEN [[req[q] EXCEPT !.m = m] EXCEPT !.at = "lock"] ELSE Onward([req[q] EXCEPT !.m = m]))
      BY <2>1, Zenon DEF LookAtMedia
    <3> QED
      BY <3>1, <1>3, <1>4
  <2> QED
    BY <1>2, <2>1

\* A deletion gets to another place for the medium it is at; locks, objects and accidents may change.
LEMMA MoveKeeps ==
  ASSUME Inv, NEW q \in Deletes, NEW place \in {"row", "stat", "erase", "probe", "recheck", "drop"},
         req[q].at \in {"lock", "row", "stat", "erase", "probe", "recheck", "drop"},
         req' = [req EXCEPT ![q].at = place],
         UNCHANGED <<rows, asked, unlisted>>,
         fileLock' \in [File -> Request \cup {Idle}],
         objects' \subseteq File, files \subseteq objects',
         accident \subseteq accident', accident' \subseteq File,
         place \in {"stat", "erase"} => FileAt(q) \notin files,
         place \in {"recheck", "drop"} => FileAt(q) \notin files \/ FileAt(q) \in accident' \cup unlisted
  PROVE  Inv'
<1> DEFINE r == [req[q] EXCEPT !.at = place]
<1>1. TypeOK /\ q \in Request /\ req[q] \in DeleteRequest /\ DeleteOK(q)
  BY Forms DEF Inv, Deletes, Open
<1>2. /\ r \in DeleteRequest /\ r.at = place /\ r.list = req[q].list /\ r.left = req[q].left /\ r.m = req[q].m
  BY <1>1 DEF DeleteRequest
<1>3. UNCHANGED <<products, media, files>>
  BY DEF rows
<1>4. Onwards
  BY <1>3 DEF Onwards, Rows
<1>5. req' = [req EXCEPT ![q] = r]
  BY <1>1 DEF TypeOK
<1> HIDE DEF r
<1>6. req'[q] = r
  BY <1>1, <1>5 DEF TypeOK
<1>7. DeleteOK(q)'
  BY <1>1, <1>2, <1>3, <1>4, <1>6, DeletionKept DEF DeleteOK, FileAt
<1>8. asked' \in 0..MaxRequests
  BY <1>1 DEF TypeOK
<1> QED
  BY <1>1, <1>2, <1>3, <1>5, <1>7, <1>8, DeletionGoesOn

LEMMA FileStepsKeep ==
  ASSUME Inv, NEW q \in Request, LockFile(q) \/ StatObject(q) \/ EraseObject(q) \/ ProbeObject(q)
  PROVE  Inv'
<1>1. TypeOK /\ References
  BY DEF Inv
<1>2. ASSUME q \in Deletes, req[q].at \in {"lock", "row", "stat", "erase", "probe", "recheck", "drop"}
      PROVE  req[q] \in DeleteRequest /\ DeleteOK(q) /\ FileAt(q) \in File
  <2>1. req[q] \in DeleteRequest /\ DeleteOK(q)
    BY <1>1, <1>2, Forms DEF Inv
  <2>2. PICK S \in SUBSET Media : req[q].list \in [S -> File]
    BY <2>1 DEF DeleteRequest
  <2>3. req[q].m \in DOMAIN req[q].list
    BY <1>2, <2>1 DEF DeleteOK
  <2> QED
    BY <2>1, <2>2, <2>3 DEF FileAt
<1>3. CASE LockFile(q)
  <2> DEFINE got == fileLock[FileAt(q)] = Idle /\ FileAt(q) \in files
  <2>1. /\ q \in Deletes /\ req[q].at = "lock"
        /\ fileLock' = IF got THEN [fileLock EXCEPT ![FileAt(q)] = q] ELSE fileLock
        /\ req' = [req EXCEPT ![q].at = IF got THEN "row" ELSE "probe"]
        /\ UNCHANGED <<rows, objects, asked, raced, accident, unlisted>>
    BY <1>3 DEF LockFile, At
  <2>2. fileLock' \in [File -> Request \cup {Idle}]
    BY <1>1, <2>1 DEF TypeOK
  <2> HIDE DEF got
  <2>3. (IF got THEN "row" ELSE "probe") \in {"row", "probe"}
    OBVIOUS
  <2>4. /\ objects' \subseteq File /\ files \subseteq objects' /\ accident \subseteq accident' /\ accident' \subseteq File
    BY <1>1, <2>1 DEF TypeOK, References
  <2> QED
    BY <2>1, <2>2, <2>3, <2>4, MoveKeeps
<1>4. CASE StatObject(q)
  <2>1. q \in Deletes /\ req[q].at = "stat"
    BY <1>4 DEF StatObject, At
  <2>2. /\ req[q] \in DeleteRequest /\ DeleteOK(q) /\ FileAt(q) \in File /\ FileAt(q) \notin files
    BY <1>2, <2>1 DEF DeleteOK
  <2>3. CASE Go(q, [req[q] EXCEPT !.at = "erase"])
    <3>1. /\ req' = [req EXCEPT ![q].at = "erase"]
          /\ UNCHANGED <<rows, objects, fileLock, asked, accident, unlisted>>
      BY <1>1, <2>3 DEF Go, TypeOK
    <3>2. /\ objects' \subseteq File /\ files \subseteq objects' /\ accident \subseteq accident' /\ accident' \subseteq File
          /\ fileLock' \in [File -> Request \cup {Idle}]
      BY <1>1, <3>1 DEF TypeOK, References
    <3> QED
      BY <2>1, <2>2, <3>1, <3>2, MoveKeeps
  <2>4. CASE /\ accident' = IF FileAt(q) \in objects THEN accident \cup {FileAt(q)} ELSE accident
             /\ fileLock' = Unlocked(FileAt(q))
             /\ req' = [req EXCEPT ![q].at = "recheck"]
             /\ UNCHANGED <<rows, objects, asked, raced, unlisted>>
    <3>1. /\ objects' \subseteq File /\ files \subseteq objects' /\ accident \subseteq accident' /\ accident' \subseteq File
          /\ fileLock' \in [File -> Request \cup {Idle}]
      BY <1>1, <2>2, <2>4 DEF TypeOK, References, Unlocked
    <3> QED
      BY <2>1, <2>2, <2>4, <3>1, MoveKeeps
  <2> QED
    BY <1>4, <2>3, <2>4 DEF StatObject
<1>5. CASE EraseObject(q)
  <2>1. q \in Deletes /\ req[q].at = "erase"
    BY <1>5 DEF EraseObject, At
  <2>2. /\ req[q] \in DeleteRequest /\ DeleteOK(q) /\ FileAt(q) \in File /\ FileAt(q) \notin files
    BY <1>2, <2>1 DEF DeleteOK
  <2>3. /\ UNCHANGED <<rows, asked, unlisted>> /\ fileLock' \in [File -> Request \cup {Idle}]
    BY <1>1, <1>5 DEF EraseObject, Unlocked, TypeOK
  <2>4. CASE objects' = objects \ {FileAt(q)} /\ req' = [req EXCEPT ![q].at = "recheck"] /\ UNCHANGED accident
    <3>1. objects' \subseteq File /\ files \subseteq objects' /\ accident \subseteq accident' /\ accident' \subseteq File
      BY <1>1, <2>2, <2>4 DEF TypeOK, References
    <3> QED
      BY <2>1, <2>2, <2>3, <2>4, <3>1, MoveKeeps
  <2>5. CASE accident' = accident \cup {FileAt(q)} /\ req' = [req EXCEPT ![q].at = "probe"] /\ UNCHANGED objects
    <3>1. objects' \subseteq File /\ files \subseteq objects' /\ accident \subseteq accident' /\ accident' \subseteq File
      BY <1>1, <2>2, <2>5 DEF TypeOK, References
    <3> QED
      BY <2>1, <2>3, <2>5, <3>1, MoveKeeps
  <2> QED
    BY <1>5, <2>4, <2>5 DEF EraseObject
<1>6. CASE ProbeObject(q)
  <2>1. q \in Deletes /\ req[q].at = "probe"
    BY <1>6 DEF ProbeObject, At
  <2>2. FileAt(q) \in File
    BY <1>2, <2>1
  <2>3. CASE Go(q, Idle)
    BY <2>3, GoIdleKeeps
  <2>4. CASE /\ accident' = IF FileAt(q) \in objects THEN accident \cup {FileAt(q)} ELSE accident
             /\ req' = [req EXCEPT ![q].at = "recheck"]
             /\ UNCHANGED <<rows, objects, fileLock, asked, raced, unlisted>>
    <3>1. /\ objects' \subseteq File /\ files \subseteq objects' /\ accident \subseteq accident' /\ accident' \subseteq File
          /\ fileLock' \in [File -> Request \cup {Idle}]
      BY <1>1, <2>2, <2>4 DEF TypeOK, References
    <3>2. FileAt(q) \notin files \/ FileAt(q) \in accident' \cup unlisted
      BY <1>1, <2>4 DEF References
    <3> QED
      BY <2>1, <2>4, <3>1, <3>2, MoveKeeps
  <2> QED
    BY <1>6, <2>3, <2>4 DEF ProbeObject
<1> QED
  BY <1>3, <1>4, <1>5, <1>6

\* The rows of the media in G go, which no transaction holds, with their files or after them.
LEMMA RowsGo ==
  ASSUME Inv, NEW q \in Deletes, NEW r \in DeleteRequest, NEW G \in SUBSET Rows,
         media' = [m \in Media |-> IF m \in G THEN Gone ELSE media[m]],
         req' = [req EXCEPT ![q] = r],
         files' \subseteq files, products' \subseteq products,
         unlisted \subseteq unlisted', unlisted' \subseteq File,
         UNCHANGED <<objects, fileLock, asked, accident>>,
         \A m \in G : media[m].file \notin files' \/ media[m].file \in accident \cup unlisted',
         \A m \in Rows \ G : media[m].file \in files' /\ media[m].product \in products',
         \A s \in Saves : /\ Written(s) \cap G = {}
                          /\ req[s].at = "commit" => req[s].row.file \in files' /\ req[s].row.product \in products',
         r.list = req[q].list, r.left \subseteq req[q].left,
         \A m \in req[q].left \ r.left : m \notin Rows \/ m \in G,
         r.at \in {"lock", "row", "stat", "erase", "probe", "recheck", "drop"} => r.m \in r.left,
         r.at \in {"product", "ok"} => r.left = {},
         r.at \in {"stat", "erase"} => r.list[r.m] \notin files',
         r.at \notin {"recheck", "drop"}
  PROVE  Inv'
<1>1. TypeOK /\ References /\ q \in Request
  BY DEF Inv, Deletes, Open
<1>2. req'[q] = r /\ \A s \in Request \ {q} : req'[s] = req[s]
  BY <1>1 DEF TypeOK
<1>3. TypeOK'
  <2>1. req' \in [Request -> SaveRequest \cup DeleteRequest \cup ProductRequest \cup {Idle}]
    BY <1>1 DEF TypeOK
  <2>2. media' \in [Media -> MediaRow \cup {Unborn, Gone}]
    BY <1>1 DEF TypeOK
  <2> QED
    BY <1>1, <2>1, <2>2 DEF TypeOK
<1>4. /\ Rows' = Rows \ G /\ \A m \in Rows \ G : media'[m] = media[m]
      /\ \A m \in Media : media[m] # Unborn => media'[m] # Unborn
      /\ \A m \in Media : media[m] = Unborn => media'[m] = Unborn
  BY CatalogueAssumption DEF Rows
<1>5. Onwards
  BY <1>4 DEF Onwards, Done
<1>6. DeleteOK(q)'
  BY <1>2, <1>4, <1>5, DeletionKept
<1>7. q \notin Saves' /\ q \notin Saves
  <2>1. req[q] \in DeleteRequest
    BY <1>1, Forms
  <2> QED
    BY <1>2, <2>1 DEF Saves, DeleteRequest
<1>8. \A s \in Saves \ {q} :
        /\ Written(s) \subseteq Rows'
        /\ req[s].kind = "insert" => media'[req[s].m] = Unborn
        /\ req[s].at = "commit" => req[s].row.file \in files' /\ req[s].row.product \in products'
  <2> SUFFICES ASSUME NEW s \in Saves
               PROVE  /\ Written(s) \subseteq Rows'
                      /\ req[s].kind = "insert" => media'[req[s].m] = Unborn
    OBVIOUS
  <2>1. SaveOK(s) /\ req[s].m \in Media
    BY <1>1, Forms DEF Inv, SaveRequest
  <2>2. Written(s) \subseteq Rows
    BY <2>1 DEF SaveOK
  <2> QED
    BY <1>4, <2>1, <2>2 DEF SaveOK
<1>9. References'
  BY <1>1, <1>4 DEF References
<1>10. (\A s \in Saves : SaveOK(s))' /\ (\A s \in Deletes : DeleteOK(s))'
  BY <1>1, <1>2, <1>5, <1>6, <1>7, <1>8, OthersKept
<1> QED
  BY <1>3, <1>9, <1>10 DEF Inv

LEMMA DeleteFileRowKeeps ==
  ASSUME Inv, NEW q \in Request, DeleteFileRow(q) PROVE Inv'
<1> DEFINE f == FileAt(q)
           r == [req[q] EXCEPT !.at = "stat"]
           G == {m \in Rows : media[m].file = f}
<1>1. /\ TypeOK /\ References /\ q \in Deletes /\ req[q] \in DeleteRequest /\ DeleteOK(q)
      /\ req[q].at = "row" /\ ~ FileBusy(f)
  BY Forms DEF DeleteFileRow, At, Inv
<1>2. /\ files' = files \ {f}
      /\ media' = [m \in Media |-> IF m \in G THEN Gone ELSE media[m]]
      /\ UNCHANGED <<products, objects, fileLock, asked, raced, accident, unlisted>>
  BY DEF DeleteFileRow
<1>3. req' = [req EXCEPT ![q] = r]
  BY <1>1 DEF DeleteFileRow, TypeOK
<1>4. /\ r \in DeleteRequest /\ r.at = "stat" /\ r.list = req[q].list /\ r.left = req[q].left /\ r.m = req[q].m
  BY <1>1 DEF DeleteRequest
<1>5. \A s \in Saves : /\ Written(s) \cap G = {}
                       /\ req[s].at = "commit" => req[s].row.file \in files' /\ req[s].row.product \in products'
  <2> SUFFICES ASSUME NEW s \in Saves
               PROVE  /\ Written(s) \cap G = {}
                      /\ req[s].at = "commit" => req[s].row.file \in files' /\ req[s].row.product \in products'
    OBVIOUS
  <2>1. SaveOK(s) /\ Written(s) \subseteq UNION {req[t].held : t \in Saves}
    BY DEF Inv, Written
  <2>2. \A m \in Written(s) : media[m].file # f
    BY <1>1, <2>1 DEF FileBusy, SaveOK
  <2> QED
    BY <1>1, <1>2, <2>1, <2>2 DEF FileBusy, SaveOK
<1>6. req[q].m \in req[q].left
  BY <1>1 DEF DeleteOK
<1>7. r.list[r.m] \notin files'
  BY <1>2, <1>4 DEF FileAt
<1>8. G \in SUBSET Rows /\ \A m \in Rows \ G : media[m].file \in files' /\ media[m].product \in products'
  BY <1>1, <1>2 DEF References
<1>9. \A m \in G : media[m].file \notin files'
  BY <1>2
<1>10. /\ files' \subseteq files /\ products' \subseteq products /\ unlisted \subseteq unlisted' /\ unlisted' \subseteq File
  BY <1>1, <1>2 DEF TypeOK
<1> HIDE DEF r, G, f
<1> QED
  BY <1>1, <1>2, <1>3, <1>4, <1>5, <1>6, <1>7, <1>8, <1>9, <1>10, RowsGo

LEMMA RereadMediaKeeps ==
  ASSUME Inv, NEW q \in Request, RereadMedia(q) PROVE Inv'
<1>1. /\ q \in Deletes /\ req[q] \in DeleteRequest /\ DeleteOK(q) /\ req[q].at = "recheck"
  BY Forms DEF RereadMedia, At, Inv
<1>2. CASE req[q].m \in Rows
  <2> DEFINE r == [req[q] EXCEPT !.at = "drop"]
  <2>1. Go(q, r)
    BY <1>2 DEF RereadMedia
  <2>2. r \in DeleteRequest /\ r.at = "drop" /\ r.list = req[q].list /\ r.left = req[q].left /\ r.m = req[q].m
    BY <1>1 DEF DeleteRequest
  <2> HIDE DEF r
  <2>3. r.m \in r.left /\ (r.list[r.m] \notin files \/ r.list[r.m] \in accident \cup unlisted)
    BY <1>1, <2>2 DEF DeleteOK, Done, FileAt
  <2> QED
    BY <1>1, <2>1, <2>2, <2>3, GoKeeps
<1>3. CASE req[q].m \notin Rows
  <2>1. Go(q, Onward(req[q]))
    BY <1>3 DEF RereadMedia
  <2> QED
    BY <1>1, <1>3, <2>1, OnwardForm, GoKeeps
<1> QED
  BY <1>2, <1>3

LEMMA DropMediaKeeps ==
  ASSUME Inv, NEW q \in Request, DropMedia(q) PROVE Inv'
<1> DEFINE m == req[q].m
           r == Onward(req[q])
<1>1. /\ TypeOK /\ References /\ q \in Deletes /\ req[q] \in DeleteRequest /\ DeleteOK(q) /\ req[q].at = "drop"
  BY Forms DEF DropMedia, At, Inv
<1>2. UNCHANGED <<products, files, objects, fileLock, asked, raced, accident, unlisted>>
  BY DEF DropMedia
<1>3. CASE m \in Rows
  <2>1. media' = [media EXCEPT ![m] = Gone] /\ req' = [req EXCEPT ![q] = r]
    BY <1>3 DEF DropMedia
  <2>2. media' = [n \in Media |-> IF n \in {m} THEN Gone ELSE media[n]]
    BY <1>1, <2>1 DEF TypeOK
  <2>3. /\ r \in DeleteRequest /\ r.list = req[q].list /\ r.left = req[q].left \ {m}
        /\ r.at \in {"look", "product", "ok"} /\ (r.at # "look" => r.left = {})
    BY <1>1, OnwardForm
  <2>4. media[m].file \notin files \/ media[m].file \in accident \cup unlisted
    BY <1>1, <1>3 DEF DeleteOK, Done, FileAt
  <2>5. \A s \in Saves : Written(s) \cap {m} = {}
    BY DEF DropMedia, Written
  <2>6. \A s \in Saves : req[s].at = "commit" => req[s].row.file \in files' /\ req[s].row.product \in products'
    BY <1>2 DEF Inv, SaveOK
  <2>7. {m} \in SUBSET Rows /\ \A n \in Rows \ {m} : media[n].file \in files' /\ media[n].product \in products'
    BY <1>1, <1>2, <1>3 DEF References
  <2>8. /\ files' \subseteq files /\ products' \subseteq products /\ unlisted \subseteq unlisted' /\ unlisted' \subseteq File
    BY <1>1, <1>2 DEF TypeOK
  <2>9. \A n \in {m} : media[n].file \notin files' \/ media[n].file \in accident \cup unlisted'
    BY <1>2, <2>4
  <2>10. \A n \in req[q].left \ r.left : n \in {m}
    BY <2>3
  <2> HIDE DEF r, m
  <2> QED
    BY <1>1, <1>2, <2>1, <2>2, <2>3, <2>5, <2>6, <2>7, <2>8, <2>9, <2>10, RowsGo
<1>4. CASE m \notin Rows
  <2>1. media' = media /\ req' = [req EXCEPT ![q] = Idle]
    BY <1>4 DEF DropMedia
  <2>2. fileLock' \in [File -> Request \cup {Idle}] /\ accident' \subseteq File /\ products' \subseteq Product
    BY <1>1, <1>2 DEF TypeOK
  <2> QED
    BY <1>2, <2>1, <2>2, EndKeeps
<1> QED
  BY <1>3, <1>4

LEMMA DropProductKeeps ==
  ASSUME Inv, NEW q \in Request, DropProduct(q) PROVE Inv'
<1> DEFINE p == req[q].p
           r == [req[q] EXCEPT !.at = "ok"]
           G == {m \in Rows : media[m].product = p}
<1>1. /\ TypeOK /\ References /\ q \in Deletes /\ req[q] \in DeleteRequest /\ DeleteOK(q) /\ req[q].at = "product"
  BY Forms DEF DropProduct, At, Inv
<1>2. CASE p \notin products
  <2>1. Go(q, Idle)
    BY <1>2 DEF DropProduct
  <2> QED
    BY <2>1, GoIdleKeeps
<1>3. CASE p \in products
  <2>1. /\ ~ ProductBusy(p)
        /\ products' = products \ {p}
        /\ media' = [m \in Media |-> IF m \in G THEN Gone ELSE media[m]]
        /\ unlisted' = unlisted \cup {media[m].file : m \in {n \in Rows \ DOMAIN req[q].list : media[n].product = p}}
        /\ UNCHANGED <<files, objects, fileLock, asked, raced, accident>>
    BY <1>3 DEF DropProduct
  <2>2. req' = [req EXCEPT ![q] = r]
    BY <1>1, <1>3 DEF DropProduct, TypeOK
  <2>3. r \in DeleteRequest /\ r.at = "ok" /\ r.list = req[q].list /\ r.left = req[q].left
    BY <1>1 DEF DeleteRequest
  <2>4. r.left = {}
    BY <1>1, <2>3 DEF DeleteOK
  <2>5. \A m \in G : media[m].file \in unlisted'
    <3>1. \A m \in DOMAIN req[q].list : m \notin Rows
      BY <1>1, <2>3, <2>4 DEF DeleteOK
    <3> QED
      BY <2>1, <3>1
  <2>6. unlisted \subseteq unlisted' /\ unlisted' \subseteq File
    <3>1. \A m \in Rows : media[m].file \in File
      BY <1>1 DEF Rows, TypeOK, MediaRow
    <3> QED
      BY <1>1, <2>1, <3>1 DEF TypeOK
  <2>7. \A s \in Saves : /\ Written(s) \cap G = {}
                         /\ req[s].at = "commit" => req[s].row.file \in files' /\ req[s].row.product \in products'
    <3> SUFFICES ASSUME NEW s \in Saves
                 PROVE  /\ Written(s) \cap G = {}
                        /\ req[s].at = "commit" => req[s].row.file \in files' /\ req[s].row.product \in products'
      OBVIOUS
    <3>1. SaveOK(s) /\ (req[s].held # {} => req[s].row.product # p)
      BY <2>1 DEF Inv, ProductBusy
    <3>2. \A m \in Written(s) : req[s].held # {} /\ media[m].product = req[s].row.product
      BY <3>1 DEF SaveOK, Written
    <3> QED
      BY <2>1, <3>1, <3>2 DEF SaveOK
  <2>8. G \in SUBSET Rows /\ \A m \in Rows \ G : media[m].file \in files' /\ media[m].product \in products'
    BY <1>1, <2>1 DEF References
  <2>9. files' \subseteq files /\ products' \subseteq products
    BY <2>1
  <2> HIDE DEF r, G, p
  <2> QED
    BY <1>1, <2>1, <2>2, <2>3, <2>4, <2>5, <2>6, <2>7, <2>8, <2>9, RowsGo
<1> QED
  BY <1>2, <1>3

LEMMA CrashKeeps ==
  ASSUME Inv, NEW q \in Request, Crash(q) PROVE Inv'
<1>1. TypeOK
  BY DEF Inv
<1>2. fileLock' \in [File -> Request \cup {Idle}]
  BY <1>1 DEF Crash, TypeOK
<1>3. At(q, "stat") \/ At(q, "erase") => FileAt(q) \in File
  <2> SUFFICES ASSUME q \in Deletes, req[q].at \in {"stat", "erase"} PROVE FileAt(q) \in File
    BY DEF At
  <2>1. req[q] \in DeleteRequest /\ DeleteOK(q)
    BY <1>1, Forms DEF Inv
  <2>2. PICK S \in SUBSET Media : req[q].list \in [S -> File]
    BY <2>1 DEF DeleteRequest
  <2>3. req[q].m \in DOMAIN req[q].list
    BY <2>1 DEF DeleteOK
  <2> QED
    BY <2>1, <2>2, <2>3 DEF FileAt
<1>4. accident \subseteq accident' /\ accident' \subseteq File /\ products' \subseteq Product
  BY <1>1, <1>3 DEF Crash, rows, TypeOK
<1> QED
  BY <1>2, <1>4, EndKeeps DEF Crash, rows

-----------------------------------------------------------------------------
(* The invariant, and what follows from it.                                 *)

LEMMA InvInit == Init => Inv
<1> SUFFICES ASSUME Init PROVE Inv
  OBVIOUS
<1>1. \A q \in Request : req[q] = Idle
  BY DEF Init
<1>2. Saves = {} /\ Deletes = {}
  BY <1>1 DEF Saves, Deletes, Open
<1>3. TypeOK
  BY CatalogueAssumption DEF Init, TypeOK
<1>4. References
  <2>1. \A m \in Rows : media[m] \in MediaRow
    BY CatalogueAssumption DEF Init, Rows
  <2> QED
    BY <2>1 DEF Init, References, MediaRow
<1> QED
  BY <1>2, <1>3, <1>4 DEF Inv

LEMMA StepKeeps ==
  ASSUME Inv, NEW q \in Request, SaveStep(q) \/ DeleteStep(q) \/ Crash(q) PROVE Inv'
<1>1. CASE CreateMedia(q)
  BY <1>1, CreateMediaKeeps
<1>2. CASE UpdateMedia(q)
  BY <1>2, UpdateMediaKeeps
<1>3. CASE AimAtFavorites(q)
  BY <1>3, AimAtFavoritesKeeps
<1>4. CASE ClearFavorites(q)
  BY <1>4, ClearFavoritesKeeps
<1>5. CASE WriteMedia(q)
  BY <1>5, WriteMediaKeeps
<1>6. CASE CommitMedia(q)
  BY <1>6, CommitMediaKeeps
<1>7. CASE RejectMedia(q) \/ SaveProduct(q) \/ WriteProduct(q)
  BY <1>7, ProductSavesKeep
<1>8. CASE DeleteMedia(q) \/ DeleteProduct(q)
  BY <1>8, AskDeletionKeeps
<1>9. CASE LookAtMedia(q)
  BY <1>9, LookAtMediaKeeps
<1>10. CASE LockFile(q) \/ StatObject(q) \/ EraseObject(q) \/ ProbeObject(q)
  BY <1>10, FileStepsKeep
<1>11. CASE DeleteFileRow(q)
  BY <1>11, DeleteFileRowKeeps
<1>12. CASE RereadMedia(q)
  BY <1>12, RereadMediaKeeps
<1>13. CASE DropMedia(q)
  BY <1>13, DropMediaKeeps
<1>14. CASE DropProduct(q)
  BY <1>14, DropProductKeeps
<1>15. CASE Answer(q)
  BY <1>15, GoIdleKeeps DEF Answer
<1>16. CASE Crash(q)
  BY <1>16, CrashKeeps
<1> QED
  BY <1>1, <1>2, <1>3, <1>4, <1>5, <1>6, <1>7, <1>8, <1>9, <1>10, <1>11, <1>12, <1>13, <1>14, <1>15, <1>16
     DEF SaveStep, DeleteStep

LEMMA StutterKeeps == Inv /\ UNCHANGED vars => Inv'
<1> SUFFICES ASSUME Inv, UNCHANGED vars PROVE Inv'
  OBVIOUS
<1>1. UNCHANGED <<products, media, files, objects, fileLock, req, asked, raced, accident, unlisted>>
  BY DEF vars
<1>2. TypeOK' /\ References'
  BY <1>1 DEF Inv, TypeOK, References, Rows
<1>3. Saves' = Saves /\ Deletes' = Deletes
  BY <1>1 DEF Saves, Deletes, Open
<1>4. \A q \in Saves : SaveOK(q)'
  BY <1>1, <1>3 DEF Inv, SaveOK, Written, Rows
<1>5. \A q \in Deletes : DeleteOK(q)'
  BY <1>1 DEF Inv, DeleteOK, Done, FileAt, Rows
<1> QED
  BY <1>2, <1>3, <1>4, <1>5 DEF Inv

LEMMA InvStep == Inv /\ [Next]_vars => Inv'
<1> SUFFICES ASSUME Inv, [Next]_vars PROVE Inv'
  OBVIOUS
<1>1. ASSUME NEW q \in Request, SaveStep(q) \/ DeleteStep(q) \/ Crash(q) PROVE Inv'
  BY <1>1, StepKeeps
<1>2. CASE UNCHANGED vars
  BY <1>2, StutterKeeps
<1> QED
  BY <1>1, <1>2 DEF Next, Rest

\* Types, for every set of products, files, media and requests.
THEOREM TypeCorrect == Spec => []TypeOK
<1>1. Inv => TypeOK
  BY DEF Inv
<1> QED
  BY <1>1, InvInit, InvStep, PTL DEF Spec

\* Every medium has its product and its file whatever is deleted meanwhile: the foreign keys
\* and the locks of uncommitted rows leave no way around, and no file loses its object before
\* its row.
THEOREM ReferencesHold == Spec => []References
<1>1. Inv => References
  BY DEF Inv
<1> QED
  BY <1>1, InvInit, InvStep, PTL DEF Spec

\* deleteProductMedia and the deletion of a product: what a deletion answered it has done, up
\* to media that went with a product which had listed its own before, and accidents of the
\* store; however many requests overlap, and wherever each of them stops.
THEOREM DeletionsAreComplete == Spec => []DeletionIsComplete
<1>1. Inv => DeletionIsComplete
  <2> SUFFICES ASSUME Inv, NEW q \in Deletes, req[q].at = "ok", NEW m \in DOMAIN req[q].list
               PROVE  m \notin Rows /\ (req[q].list[m] \in files => req[q].list[m] \in accident \cup unlisted)
    BY DEF DeletionIsComplete
  <2>1. DeleteOK(q)
    BY DEF Inv
  <2> QED
    BY <2>1 DEF DeleteOK, Done
<1> QED
  BY <1>1, InvInit, InvStep, PTL DEF Spec

\* A step that neither deletes the row of a file nor touches its object.
LEMMA ObjectsLeftAlone ==
  ASSUME Inv, NEW q \in Request, SaveStep(q) \/ DeleteStep(q),
         ~ DeleteFileRow(q), ~ StatObject(q), ~ EraseObject(q)
  PROVE  /\ UNCHANGED <<files, objects>> /\ accident \subseteq accident'
         /\ \A d \in Deletes : req[d].at \in {"stat", "erase"} => req'[d] = req[d]
<1>1. TypeOK
  BY DEF Inv
<1>2. ASSUME NEW r, req[q] = Idle, req' = [req EXCEPT ![q] = r]
      PROVE  \A d \in Deletes : req'[d] = req[d]
  BY <1>1, <1>2 DEF TypeOK, Deletes, Open
<1>3. ASSUME NEW r, q \in Saves \/ (q \in Open /\ req[q].kind = "save"), req' = [req EXCEPT ![q] = r]
      PROVE  \A d \in Deletes : req'[d] = req[d]
  BY <1>1, <1>3 DEF TypeOK, Deletes, Saves, Open
<1>4. ASSUME NEW r, q \in Deletes, req[q].at \notin {"stat", "erase"}, req' = [req EXCEPT ![q] = r]
      PROVE  \A d \in Deletes : req[d].at \in {"stat", "erase"} => req'[d] = req[d]
  BY <1>1, <1>4 DEF TypeOK, Deletes, Open
<1>5. ASSUME NEW r, Ask(q, r)
      PROVE  UNCHANGED <<files, objects, accident>> /\ \A d \in Deletes : req'[d] = req[d]
  BY <1>2, <1>5 DEF Ask, rows
<1>6. CASE CreateMedia(q)
  <2>1. \E r : Ask(q, r)
    BY <1>6 DEF CreateMedia
  <2> QED
    BY <2>1, <1>5
<1>7. CASE UpdateMedia(q) \/ SaveProduct(q) \/ DeleteMedia(q) \/ DeleteProduct(q)
  <2>1. \E r : Ask(q, r)
    BY <1>7 DEF UpdateMedia, SaveProduct, DeleteMedia, DeleteProduct
  <2> QED
    BY <2>1, <1>5
<1>8. CASE AimAtFavorites(q) \/ ClearFavorites(q) \/ WriteMedia(q) \/ RejectMedia(q) \/ WriteProduct(q)
  <2>1. /\ UNCHANGED <<files, objects, accident>>
        /\ q \in Saves \/ (q \in Open /\ req[q].kind = "save")
    BY <1>8 DEF AimAtFavorites, ClearFavorites, WriteMedia, RejectMedia, WriteProduct, rows
  <2>2. \E r : req' = [req EXCEPT ![q] = r]
    BY <1>1, <1>8 DEF AimAtFavorites, ClearFavorites, WriteMedia, RejectMedia, WriteProduct, TypeOK
  <2> QED
    BY <2>1, <2>2, <1>3
<1>9. CASE CommitMedia(q)
  <2>1. UNCHANGED <<files, objects, accident>> /\ q \in Saves
    BY <1>9 DEF CommitMedia
  <2>2. PICK U \in SUBSET Saves :
          req' = [s \in Request |-> IF s = q THEN Idle ELSE IF s \in U THEN [req[s] EXCEPT !.late = TRUE] ELSE req[s]]
    BY <1>9 DEF CommitMedia
  <2>3. \A d \in Deletes : d \in Request /\ d \notin Saves
    BY <1>1, Forms
  <2> QED
    BY <2>1, <2>2, <2>3
<1>10. CASE LookAtMedia(q) \/ RereadMedia(q) \/ Answer(q)
  <2>1. q \in Deletes /\ req[q].at \notin {"stat", "erase"}
    BY <1>10 DEF LookAtMedia, RereadMedia, Answer, At
  <2>2. \E r : Go(q, r)
    BY <1>10 DEF LookAtMedia, RereadMedia, Answer
  <2> QED
    BY <2>1, <2>2, <1>4 DEF Go, rows
<1>11. CASE LockFile(q) \/ ProbeObject(q)
  <2>1. q \in Deletes /\ req[q].at \notin {"stat", "erase"}
    BY <1>11 DEF LockFile, ProbeObject, At
  <2>2. UNCHANGED <<files, objects>> /\ accident \subseteq accident'
    BY <1>11 DEF LockFile, ProbeObject, Go, rows
  <2>3. \E r : req' = [req EXCEPT ![q] = r]
    BY <1>1, <1>11 DEF LockFile, ProbeObject, Go, TypeOK
  <2> QED
    BY <2>1, <2>2, <2>3, <1>4
<1>12. CASE DropMedia(q) \/ DropProduct(q)
  <2>1. q \in Deletes /\ req[q].at \notin {"stat", "erase"}
    BY <1>12 DEF DropMedia, DropProduct, At
  <2>2. UNCHANGED <<files, objects, accident>>
    BY <1>12 DEF DropMedia, DropProduct, Go, rows
  <2>3. \E r : req' = [req EXCEPT ![q] = r]
    BY <1>1, <1>12 DEF DropMedia, DropProduct, Go, TypeOK
  <2> QED
    BY <2>1, <2>2, <2>3, <1>4
<1> QED
  BY <1>6, <1>7, <1>8, <1>9, <1>10, <1>11, <1>12 DEF SaveStep, DeleteStep

LEMMA ObjectsStep == Inv /\ ObjectsHaveFiles /\ [Next]_vars => ObjectsHaveFiles'
<1> SUFFICES ASSUME Inv, ObjectsHaveFiles, [Next]_vars,
                    NEW f \in objects', f \notin files' \cup accident'
             PROVE  \E d \in Deletes' : req'[d].at \in {"stat", "erase"} /\ FileAt(d)' = f
  BY DEF ObjectsHaveFiles
<1>1. TypeOK
  BY DEF Inv
<1>2. ASSUME NEW d \in Deletes, req[d].at \in {"stat", "erase"}, FileAt(d) = f, req'[d] = req[d]
      PROVE  \E e \in Deletes' : req'[e].at \in {"stat", "erase"} /\ FileAt(e)' = f
  BY <1>2 DEF Deletes, Open, FileAt
<1>3. f \in objects \ (files \cup accident) =>
        \E d \in Deletes : req[d].at \in {"stat", "erase"} /\ FileAt(d) = f
  BY DEF ObjectsHaveFiles
<1>4. CASE UNCHANGED vars
  <2>1. UNCHANGED <<files, objects, accident, req>>
    BY <1>4 DEF vars
  <2> QED
    BY <2>1, <1>2, <1>3
<1>5. ASSUME NEW q \in Request, SaveStep(q) \/ DeleteStep(q),
             ~ DeleteFileRow(q), ~ StatObject(q), ~ EraseObject(q)
      PROVE  \E d \in Deletes' : req'[d].at \in {"stat", "erase"} /\ FileAt(d)' = f
  <2>1. /\ UNCHANGED <<files, objects>> /\ accident \subseteq accident'
        /\ \A d \in Deletes : req[d].at \in {"stat", "erase"} => req'[d] = req[d]
    BY <1>5, ObjectsLeftAlone
  <2> QED
    BY <2>1, <1>2, <1>3
<1>6. ASSUME NEW q \in Request, DeleteFileRow(q)
      PROVE  \E d \in Deletes' : req'[d].at \in {"stat", "erase"} /\ FileAt(d)' = f
  <2>1. q \in Deletes /\ req[q] \in DeleteRequest /\ req[q].at = "row"
    BY <1>1, <1>6, Forms DEF DeleteFileRow, At
  <2>2. /\ files' = files \ {FileAt(q)} /\ req' = [req EXCEPT ![q].at = "stat"]
        /\ UNCHANGED <<objects, accident>>
    BY <1>6 DEF DeleteFileRow
  <2>3. /\ req'[q] \in DeleteRequest /\ req'[q].at = "stat" /\ req'[q].m = req[q].m
        /\ req'[q].list = req[q].list /\ req'[q].kind = req[q].kind
    BY <1>1, <2>1, <2>2 DEF TypeOK, DeleteRequest
  <2>4. q \in Deletes' /\ FileAt(q)' = FileAt(q)
    <3>1. req'[q] # Idle
      BY <2>3, CatalogueAssumption
    <3> QED
      BY <2>1, <2>3, <3>1 DEF Deletes, Open, FileAt
  <2>5. CASE f = FileAt(q)
    BY <2>3, <2>4, <2>5
  <2>6. CASE f # FileAt(q)
    <3>1. PICK d \in Deletes : req[d].at \in {"stat", "erase"} /\ FileAt(d) = f
      BY <1>3, <2>2, <2>6
    <3>2. req'[d] = req[d]
      BY <1>1, <2>1, <2>2, <3>1 DEF TypeOK, Deletes, Open
    <3> QED
      BY <3>1, <3>2, <1>2
  <2> QED
    BY <2>5, <2>6
<1>7. ASSUME NEW q \in Request, StatObject(q) \/ EraseObject(q) \/ Crash(q)
      PROVE  \E d \in Deletes' : req'[d].at \in {"stat", "erase"} /\ FileAt(d)' = f
  <2>1. files' = files /\ objects' \subseteq objects /\ accident \subseteq accident'
    BY <1>7 DEF StatObject, EraseObject, Crash, Go, rows
  <2>2. PICK d \in Deletes : req[d].at \in {"stat", "erase"} /\ FileAt(d) = f
    BY <1>3, <2>1
  <2>3. CASE d # q
    <3>1. req'[d] = req[d]
      BY <1>1, <1>7, <2>2, <2>3 DEF StatObject, EraseObject, Crash, Go, TypeOK, Deletes, Open
    <3> QED
      BY <2>2, <3>1, <1>2
  <2>4. CASE d = q
    <3>1. CASE StatObject(q)
      <4>1. req' = [req EXCEPT ![q].at = "erase"]
        BY <1>1, <2>1, <2>2, <2>4, <3>1 DEF StatObject, Go, TypeOK
      <4>2. req[q] \in DeleteRequest
        BY <1>1, <2>4, Forms
      <4>3. /\ req'[q] \in DeleteRequest /\ req'[q].at = "erase" /\ req'[q].m = req[q].m
            /\ req'[q].list = req[q].list /\ req'[q].kind = req[q].kind
        BY <1>1, <4>1, <4>2 DEF TypeOK, DeleteRequest
      <4>4. q \in Deletes' /\ FileAt(q)' = FileAt(q)
        <5>1. req'[q] # Idle
          BY <4>3, CatalogueAssumption
        <5> QED
          BY <2>4, <4>3, <5>1 DEF Deletes, Open, FileAt
      <4> QED
        BY <2>2, <2>4, <4>3, <4>4
    <3>2. CASE EraseObject(q)
      BY <2>2, <2>4, <3>2 DEF EraseObject
    <3>3. CASE Crash(q)
      BY <2>2, <2>4, <3>3 DEF Crash, At
    <3> QED
      BY <1>7, <3>1, <3>2, <3>3
  <2> QED
    BY <2>3, <2>4
<1> QED
  BY <1>4, <1>5, <1>6, <1>7 DEF Next, Rest

\* deleteFile, for every number of requests: an object whose row is deleted is one that its
\* deletion is still at, or one that the store or a crash left behind.
THEOREM ObjectsKeepFiles == Spec => []ObjectsHaveFiles
<1>1. Init => ObjectsHaveFiles
  BY DEF Init, ObjectsHaveFiles
<1> QED
  BY <1>1, InvInit, InvStep, ObjectsStep, PTL DEF Spec

-----------------------------------------------------------------------------
(* Favourites.                                                              *)

\* A transaction that sets a favourite has cleared the others or read the row as the
\* favourite; and what it clears are all there are, unless it was told of a newer one.
FavoriteOK(q) ==
  /\ req[q].sole => req[q].row.fav
  /\ req[q].row.fav => req[q].sole \/ req[q].saw
  /\ req[q].at \in {"aim", "clear"} => req[q].sole
  /\ req[q].at = "clear" /\ ~ req[q].late => Favorites(Of(req[q].row)) \subseteq req[q].aim
  /\ req[q].at \in {"write", "commit"} /\ req[q].sole /\ ~ req[q].late =>
       Favorites(Of(req[q].row)) \subseteq req[q].held

FavoriteInv ==
  /\ \A q \in Saves : FavoriteOK(q)
  /\ \A m, n \in Rows :
       media[m].fav /\ media[n].fav /\ Of(media[m]) = Of(media[n]) /\ Of(media[m]) \notin raced => m = n

\* As long as no medium becomes a favourite.
LEMMA FavoritesStay ==
  ASSUME Inv, FavoriteInv, NEW q \in Request, UNCHANGED raced,
         \A m \in Rows' : m \in Rows /\ media'[m] = media[m],
         \A s \in Request \ {q} : req'[s] = req[s],
         q \in Saves' => FavoriteOK(q)'
  PROVE  FavoriteInv'
<1>1. ASSUME NEW s \in Saves', s # q PROVE FavoriteOK(s)'
  <2>1. req'[s] = req[s] /\ s \in Saves
    BY <1>1 DEF Saves, Open
  <2>2. FavoriteOK(s)
    BY <2>1 DEF FavoriteInv
  <2>3. \A pt : {m \in Rows' : media'[m].fav /\ Of(media'[m]) = pt} \subseteq Favorites(pt)
    BY DEF Favorites
  <2>4. Favorites(Of(req[s].row))' \subseteq Favorites(Of(req[s].row))
    BY <2>1, <2>3 DEF Favorites, Of
  <2> QED
    BY <2>1, <2>2, <2>4 DEF FavoriteOK, Of
<1>2. ASSUME NEW m \in Rows', NEW n \in Rows', media'[m].fav, media'[n].fav,
             Of(media'[m]) = Of(media'[n]), Of(media'[m]) \notin raced'
      PROVE  m = n
  BY <1>2 DEF FavoriteInv
<1>3. ASSUME NEW m \in Rows', NEW n \in Rows', media'[m].fav, media'[n].fav,
             Of(media[m])' = Of(media[n])', Of(media[m])' \notin raced'
      PROVE  m = n
  BY <1>2, <1>3 DEF Of
<1> QED
  BY <1>1, <1>3 DEF FavoriteInv

\* New transactions.
LEMMA AskSaveFavorites ==
  ASSUME Inv, FavoriteInv, NEW q \in Request, NEW kind \in {"insert", "update"}, NEW m \in Media,
         NEW row \in MediaRow, NEW fav \in BOOLEAN, NEW sole \in BOOLEAN,
         Ask(q, Save(kind, m, row, fav, sole)),
         sole => fav, fav => sole \/ (kind = "update" /\ row.fav)
  PROVE  FavoriteInv'
<1> DEFINE new == Save(kind, m, row, fav, sole)
<1>1. TypeOK
  BY DEF Inv
<1>2. req' = [req EXCEPT ![q] = new] /\ UNCHANGED <<media, raced>>
  BY DEF Ask, rows
<1>3. req'[q] = new /\ \A s \in Request \ {q} : req'[s] = req[s]
  BY <1>1, <1>2 DEF TypeOK
<1>4. /\ new.sole = sole /\ new.row.fav = fav /\ (new.saw <=> kind = "update" /\ row.fav)
      /\ new.at = IF sole THEN "aim" ELSE "write"
  BY DEF Save, MediaRow
<1>5. FavoriteOK(q)'
  BY <1>3, <1>4 DEF FavoriteOK
<1>6. \A n \in Rows' : n \in Rows /\ media'[n] = media[n]
  BY <1>2 DEF Rows
<1> QED
  BY <1>2, <1>3, <1>5, <1>6, FavoritesStay

LEMMA SaveFavorites ==
  ASSUME Inv, FavoriteInv, NEW q \in Request,
         CreateMedia(q) \/ UpdateMedia(q) \/ AimAtFavorites(q) \/ ClearFavorites(q) \/ WriteMedia(q)
  PROVE  FavoriteInv'
<1>1. TypeOK
  BY DEF Inv
<1>2. CASE CreateMedia(q)
  <2>1. PICK p \in products, f \in File, fav \in BOOLEAN :
          LET same == {m \in Rows : media[m].file = f /\ media[m].product = p}
              fresh == {m \in Media : media[m] = Unborn /\ \A r \in Saves : req[r].m # m}
          IN  \/ \E m \in same : media[m].fav # fav /\ Ask(q, Save("update", m, media[m], fav, fav))
              \/ /\ same = {} /\ f \in files /\ fresh # {}
                 /\ Ask(q, Save("insert", CHOOSE m \in fresh : TRUE, [file |-> f, product |-> p, fav |-> fav], fav, fav))
    BY <1>2, Zenon DEF CreateMedia
  <2> DEFINE fresh == {m \in Media : media[m] = Unborn /\ \A r \in Saves : req[r].m # m}
             chosen == CHOOSE m \in fresh : TRUE
  <2>2. ASSUME NEW m \in Rows, Ask(q, Save("update", m, media[m], fav, fav)) PROVE FavoriteInv'
    <3>1. m \in Media /\ media[m] \in MediaRow
      BY <1>1 DEF Rows, TypeOK
    <3> QED
      BY <2>2, <3>1, AskSaveFavorites
  <2>3. ASSUME fresh # {}, Ask(q, Save("insert", chosen, [file |-> f, product |-> p, fav |-> fav], fav, fav))
        PROVE  FavoriteInv'
    <3>1. chosen \in fresh
      BY <2>3
    <3>2. chosen \in Media /\ [file |-> f, product |-> p, fav |-> fav] \in MediaRow
      BY <1>1, <3>1 DEF TypeOK, MediaRow
    <3> HIDE DEF chosen
    <3> QED
      BY <2>3, <3>2, AskSaveFavorites
  <2> QED
    BY <2>1, <2>2, <2>3
<1>3. CASE UpdateMedia(q)
  <2>1. PICK m \in Rows : \/ Ask(q, Save("update", m, media[m], TRUE, TRUE))
                          \/ \E fav \in {FALSE, media[m].fav} : Ask(q, Save("update", m, media[m], fav, FALSE))
    BY <1>3 DEF UpdateMedia
  <2>2. m \in Media /\ media[m] \in MediaRow /\ media[m].fav \in BOOLEAN
    BY <1>1 DEF Rows, TypeOK, MediaRow
  <2> QED
    BY <2>1, <2>2, AskSaveFavorites
<1>4. CASE AimAtFavorites(q) \/ ClearFavorites(q) \/ WriteMedia(q)
  <2>1. UNCHANGED <<media, raced>> /\ q \in Saves
    BY <1>4 DEF AimAtFavorites, ClearFavorites, WriteMedia, rows
  <2>2. req[q] \in SaveRequest /\ FavoriteOK(q)
    BY <1>1, <2>1, Forms DEF FavoriteInv
  <2>3. PICK r \in SaveRequest :
          /\ req' = [req EXCEPT ![q] = r]
          /\ r.row = req[q].row /\ r.sole = req[q].sole /\ r.saw = req[q].saw /\ r.late = req[q].late
          /\ \/ AimAtFavorites(q) /\ r.at = "clear" /\ r.aim = Favorites(Of(req[q].row))
             \/ ClearFavorites(q) /\ r.at = "write" /\ r.held = {m \in req[q].aim \cap Rows : media[m].fav}
             \/ WriteMedia(q) /\ r.at = "commit" /\ req[q].held \subseteq r.held
    <3>1. CASE AimAtFavorites(q)
      <4> DEFINE r == [req[q] EXCEPT !.at = "clear", !.aim = Favorites(Of(req[q].row))]
      <4>1. Favorites(Of(req[q].row)) \subseteq Media
        BY DEF Favorites, Rows
      <4>2. r \in SaveRequest /\ r.row = req[q].row /\ r.sole = req[q].sole /\ r.saw = req[q].saw
            /\ r.late = req[q].late /\ r.at = "clear" /\ r.aim = Favorites(Of(req[q].row))
        BY <2>2, <4>1 DEF SaveRequest
      <4>3. req' = [req EXCEPT ![q] = r]
        BY <3>1 DEF AimAtFavorites
      <4> HIDE DEF r
      <4> QED
        BY <3>1, <4>2, <4>3
    <3>2. CASE ClearFavorites(q)
      <4> DEFINE cleared == {m \in req[q].aim \cap Rows : media[m].fav}
                 r == [req[q] EXCEPT !.at = "write", !.held = cleared]
      <4>1. cleared \subseteq Media
        BY DEF Rows
      <4>2. r \in SaveRequest /\ r.row = req[q].row /\ r.sole = req[q].sole /\ r.saw = req[q].saw
            /\ r.late = req[q].late /\ r.at = "write" /\ r.held = cleared
        BY <2>2, <4>1 DEF SaveRequest
      <4>3. req' = [req EXCEPT ![q] = r]
        BY <3>2 DEF ClearFavorites
      <4> HIDE DEF r
      <4> QED
        BY <3>2, <4>2, <4>3
    <3>3. CASE WriteMedia(q)
      <4> DEFINE r == [req[q] EXCEPT !.at = "commit", !.held = @ \cup {req[q].m}]
      <4>1. r \in SaveRequest /\ r.row = req[q].row /\ r.sole = req[q].sole /\ r.saw = req[q].saw
            /\ r.late = req[q].late /\ r.at = "commit" /\ req[q].held \subseteq r.held
        BY <2>2 DEF SaveRequest
      <4>2. req' = [req EXCEPT ![q] = r]
        BY <3>3 DEF WriteMedia
      <4> HIDE DEF r
      <4> QED
        BY <3>3, <4>1, <4>2
    <3> QED
      BY <1>4, <3>1, <3>2, <3>3
  <2>4. req'[q] = r /\ \A s \in Request \ {q} : req'[s] = req[s]
    BY <1>1, <2>3 DEF TypeOK
  <2>5. Favorites(Of(req[q].row))' = Favorites(Of(req[q].row))
    BY <2>1, <2>3, <2>4 DEF Favorites, Of, Rows
  <2>6. FavoriteOK(q)'
    <3>1. r.sole => r.row.fav
      BY <2>2, <2>3 DEF FavoriteOK
    <3>2. r.row.fav => r.sole \/ r.saw
      BY <2>2, <2>3 DEF FavoriteOK
    <3>3. /\ r.at = "clear" => r.sole
          /\ r.at # "aim"
          /\ r.at = "clear" => Favorites(Of(req[q].row)) \subseteq r.aim
      BY <2>2, <2>3 DEF FavoriteOK, AimAtFavorites
    <3>4. r.at \in {"write", "commit"} /\ r.sole /\ ~ r.late => Favorites(Of(req[q].row)) \subseteq r.held
      <4>1. CASE ClearFavorites(q) /\ r.at = "write" /\ r.held = {m \in req[q].aim \cap Rows : media[m].fav}
        <5>1. ~ req[q].late => Favorites(Of(req[q].row)) \subseteq req[q].aim
          BY <2>2, <4>1 DEF FavoriteOK, ClearFavorites
        <5>2. \A m \in Favorites(Of(req[q].row)) : m \in Rows /\ media[m].fav
          BY DEF Favorites
        <5> QED
          BY <2>3, <4>1, <5>1, <5>2
      <4>2. CASE WriteMedia(q) /\ req[q].held \subseteq r.held
        <5>1. req[q].at = "write"
          BY <4>2 DEF WriteMedia
        <5> QED
          BY <2>2, <2>3, <4>2, <5>1 DEF FavoriteOK
      <4> QED
        BY <2>3, <4>1, <4>2
    <3> QED
      BY <2>4, <2>5, <3>1, <3>2, <3>3, <3>4 DEF FavoriteOK, Of
  <2>7. \A m \in Rows' : m \in Rows /\ media'[m] = media[m]
    BY <2>1 DEF Rows
  <2> QED
    BY <2>1, <2>4, <2>6, <2>7, FavoritesStay
<1> QED
  BY <1>2, <1>3, <1>4

LEMMA CommitFavorites ==
  ASSUME Inv, FavoriteInv, NEW q \in Request, CommitMedia(q)
  PROVE  FavoriteInv'
<1> DEFINE r == req[q]
           pt == Of(r.row)
           new == r.row.fav /\ (r.m \notin Rows \/ ~ media[r.m].fav)
           unseen == {s \in Saves \ {q} : new /\ req[s].sole /\ req[s].at # "aim" /\ Of(req[s].row) = pt}
<1>1. TypeOK /\ q \in Saves /\ r \in SaveRequest /\ r.at = "commit" /\ SaveOK(q) /\ FavoriteOK(q)
  BY Forms DEF CommitMedia, Inv, FavoriteInv
<1>2. r.m \in Media /\ r.row \in MediaRow /\ r.held \subseteq Media /\ r.kind \in {"insert", "update"}
  BY <1>1 DEF SaveRequest
<1>3. /\ media' = [n \in Media |-> IF n = r.m THEN r.row
                                   ELSE IF n \in r.held THEN [media[n] EXCEPT !.fav = FALSE] ELSE media[n]]
      /\ raced' = IF r.late \/ (new /\ r.saw /\ ~ r.sole) THEN raced \cup {pt}
                  ELSE IF r.sole THEN raced \ {pt} ELSE raced
      /\ req' = [s \in Request |-> IF s = q THEN Idle
                                   ELSE IF s \in unseen THEN [req[s] EXCEPT !.late = TRUE] ELSE req[s]]
  BY DEF CommitMedia
<1>4. \A n \in Rows' : n # r.m => /\ n \in Rows
                                  /\ media'[n].fav => n \notin r.held /\ media'[n] = media[n]
  <2>1. \A n \in r.held : n # r.m => n \in Rows
    BY <1>1, <1>2 DEF SaveOK, Written
  <2>2. \A n \in Rows : media[n] \in MediaRow
    BY <1>1 DEF Rows, TypeOK
  <2>3. \A row \in MediaRow : [row EXCEPT !.fav = FALSE].fav = FALSE
    BY DEF MediaRow
  <2> QED
    BY <1>3, <2>1, <2>2, <2>3 DEF Rows
<1>5. media'[r.m] = r.row
  BY <1>2, <1>3
<1>6. r.m \in Rows => Of(media[r.m]) = pt
  BY <1>1, <1>2 DEF SaveOK, Of, Rows
<1> HIDE DEF pt, new, unseen, r
<1>7. \A n \in Rows' : media'[n].fav =>
        \/ n # r.m /\ n \notin r.held /\ n \in Rows /\ media'[n] = media[n]
        \/ n = r.m /\ Of(media'[n]) = pt /\ r.row.fav
  BY <1>4, <1>5 DEF pt
<1>8. r.row.fav /\ ~ new => r.m \in Rows /\ media[r.m].fav /\ Of(media[r.m]) = pt
  BY <1>6 DEF new
<1>9. \A P : \A n \in Rows' :
        media'[n].fav /\ Of(media'[n]) = P => n \in Favorites(P) \/ (new /\ P = pt /\ n = r.m)
  BY <1>7, <1>8 DEF Favorites
<1>10. ASSUME NEW s \in Saves' PROVE FavoriteOK(s)'
  <2>1. s \in Request /\ s # q
    BY <1>3 DEF Saves, Open
  <2>2. s \in Saves => req[s] \in SaveRequest
    BY <1>1, Forms
  <2>3. s \in Saves
    BY <1>3, <2>1 DEF Saves, Open, unseen
  <2>4. req[s] \in SaveRequest /\ FavoriteOK(s)
    BY <2>2, <2>3 DEF FavoriteInv
  <2>5. CASE s \in unseen
    <3>1. req'[s] = [req[s] EXCEPT !.late = TRUE]
      BY <1>3, <2>1, <2>5
    <3>2. /\ req'[s].late = TRUE /\ req'[s].at = req[s].at /\ req'[s].sole = req[s].sole
          /\ req'[s].saw = req[s].saw /\ req'[s].row = req[s].row
      BY <2>4, <3>1 DEF SaveRequest
    <3> QED
      BY <2>4, <3>2 DEF FavoriteOK
  <2>6. CASE s \notin unseen
    <3>1. req'[s] = req[s]
      BY <1>3, <2>1, <2>6
    <3> DEFINE P == Of(req[s].row)
    <3>2. req[s].sole /\ req[s].at # "aim" => \A n \in Rows' : media'[n].fav /\ Of(media'[n]) = P => n \in Favorites(P)
      <4>1. req[s].sole /\ req[s].at # "aim" => ~ (new /\ P = pt)
        BY <2>1, <2>3, <2>6 DEF unseen
      <4> QED
        BY <1>9, <4>1
    <3>3. req[s].sole /\ req[s].at # "aim" => Favorites(Of(req[s].row))' \subseteq Favorites(P)
      <4>1. Favorites(Of(req[s].row))' = {n \in Rows' : media'[n].fav /\ Of(media'[n]) = P}
        BY <3>1 DEF Favorites, Of
      <4> HIDE DEF P
      <4> QED
        BY <3>2, <4>1
    <3> QED
      BY <2>4, <3>1, <3>3 DEF FavoriteOK
  <2> QED
    BY <2>5, <2>6
<1>11. ASSUME NEW m \in Rows', NEW n \in Rows', media'[m].fav, media'[n].fav,
              Of(media'[m]) = Of(media'[n]), Of(media'[m]) \notin raced'
       PROVE  m = n
  <2> DEFINE P == Of(media'[m])
  <2>1. \A i, j : i \in Favorites(P) /\ j \in Favorites(P) /\ P \notin raced => i = j
    BY DEF FavoriteInv, Favorites
  <2>2. CASE P # pt
    <3>1. P \notin raced
      BY <1>3, <1>11, <2>2
    <3> QED
      BY <1>9, <1>11, <2>1, <2>2, <3>1
  <2>3. CASE P = pt
    <3>1. ~ r.late /\ ~ (new /\ r.saw /\ ~ r.sole)
      BY <1>3, <1>11, <2>3
    <3>2. CASE r.sole
      <4>1. Favorites(pt) \subseteq r.held
        BY <1>1, <3>1, <3>2 DEF FavoriteOK, r, pt
      <4>2. \A k \in Rows' : media'[k].fav /\ Of(media'[k]) = pt => k = r.m
        BY <1>7, <4>1 DEF Favorites
      <4> QED
        BY <1>11, <2>3, <4>2
    <3>3. CASE ~ r.sole
      <4>1. ~ new /\ raced' = raced
        BY <1>1, <1>3, <3>1, <3>3 DEF FavoriteOK, r, new
      <4> QED
        BY <1>9, <1>11, <2>1, <2>3, <4>1
    <3> QED
      BY <3>2, <3>3
  <2> QED
    BY <2>2, <2>3
<1>12. ASSUME NEW m \in Rows', NEW n \in Rows', media'[m].fav, media'[n].fav,
              Of(media[m])' = Of(media[n])', Of(media[m])' \notin raced'
       PROVE  m = n
  BY <1>11, <1>12 DEF Of
<1> QED
  BY <1>10, <1>12 DEF FavoriteInv

\* Everything else leaves the media as they are, or deletes some.
LEMMA DeleteFavorites ==
  ASSUME Inv, FavoriteInv, NEW q \in Request,
         RejectMedia(q) \/ SaveProduct(q) \/ WriteProduct(q) \/ DeleteStep(q) \/ Crash(q)
  PROVE  FavoriteInv'
<1>1. TypeOK
  BY DEF Inv
<1>2. UNCHANGED raced
  BY DEF RejectMedia, SaveProduct, WriteProduct, DeleteStep, Crash, Ask, Go, DeleteMedia, DeleteProduct,
         LookAtMedia, LockFile, DeleteFileRow, StatObject, EraseObject, ProbeObject, RereadMedia,
         DropMedia, DropProduct, Answer
<1>3. \A m \in Rows' : m \in Rows /\ media'[m] = media[m]
  <2>1. CASE media' = media
    BY <2>1 DEF Rows
  <2>2. ASSUME NEW G \in SUBSET Rows, media' = [m \in Media |-> IF m \in G THEN Gone ELSE media[m]]
        PROVE  \A m \in Rows' : m \in Rows /\ media'[m] = media[m]
    BY <2>2 DEF Rows
  <2>3. CASE DeleteFileRow(q)
    <3> DEFINE G == {m \in Rows : media[m].file = FileAt(q)}
    <3>1. media' = [m \in Media |-> IF m \in G THEN Gone ELSE media[m]]
      BY <2>3 DEF DeleteFileRow
    <3>2. G \in SUBSET Rows
      OBVIOUS
    <3> HIDE DEF G
    <3> QED
      BY <3>1, <3>2, <2>2
  <2>4. CASE DropProduct(q)
    <3> DEFINE G == {m \in Rows : media[m].product = req[q].p}
    <3>1. media' = media \/ media' = [m \in Media |-> IF m \in G THEN Gone ELSE media[m]]
      BY <2>4 DEF DropProduct, Go, rows
    <3>2. G \in SUBSET Rows
      OBVIOUS
    <3> HIDE DEF G
    <3> QED
      BY <3>1, <3>2, <2>1, <2>2
  <2>5. CASE DropMedia(q)
    BY <1>1, <2>5 DEF DropMedia, TypeOK, Rows
  <2>6. CASE RejectMedia(q) \/ SaveProduct(q) \/ WriteProduct(q) \/ Crash(q)
    BY <2>1, <2>6 DEF RejectMedia, SaveProduct, WriteProduct, Crash, Ask, rows
  <2>7. CASE DeleteMedia(q) \/ DeleteProduct(q) \/ LookAtMedia(q) \/ LockFile(q) \/ StatObject(q)
             \/ EraseObject(q) \/ ProbeObject(q) \/ RereadMedia(q) \/ Answer(q)
    BY <2>1, <2>7 DEF DeleteMedia, DeleteProduct, LookAtMedia, LockFile, StatObject, EraseObject, ProbeObject,
                      RereadMedia, Answer, Ask, Go, rows
  <2> QED
    BY <2>3, <2>4, <2>5, <2>6, <2>7 DEF DeleteStep
<1>4. q \notin Saves' /\ \A s \in Request \ {q} : req'[s] = req[s]
  <2>1. ASSUME NEW x, req' = [req EXCEPT ![q] = x], x = Idle \/ x.kind \notin {"insert", "update"}
        PROVE  q \notin Saves' /\ \A s \in Request \ {q} : req'[s] = req[s]
    BY <1>1, <2>1 DEF TypeOK, Saves, Open
  <2>2. CASE RejectMedia(q) \/ WriteProduct(q) \/ Crash(q) \/ Answer(q)
    BY <2>1, <2>2 DEF RejectMedia, WriteProduct, Crash, Answer, Go
  <2>3. CASE SaveProduct(q)
    BY <2>1, <2>3 DEF SaveProduct, Ask
  <2>4. CASE DeleteMedia(q) \/ DeleteProduct(q)
    <3>1. ASSUME NEW kind \in {"media", "product"}, NEW p, NEW ms, Ask(q, Deletion(kind, p, ms))
          PROVE  q \notin Saves' /\ \A s \in Request \ {q} : req'[s] = req[s]
      BY <2>1, <3>1 DEF Ask, Deletion
    <3>2. CASE DeleteMedia(q)
      BY <3>1, <3>2 DEF DeleteMedia
    <3>3. CASE DeleteProduct(q)
      BY <3>1, <3>3 DEF DeleteProduct
    <3> QED
      BY <2>4, <3>2, <3>3
  <2>5. ASSUME q \in Deletes PROVE req[q] \in DeleteRequest
    BY <1>1, <2>5, Forms
  <2>6. CASE LockFile(q) \/ DeleteFileRow(q) \/ StatObject(q) \/ EraseObject(q) \/ ProbeObject(q)
    <3>1. req[q] \in DeleteRequest
      BY <2>5, <2>6 DEF LockFile, DeleteFileRow, StatObject, EraseObject, ProbeObject, At
    <3>2. PICK place : req' = [req EXCEPT ![q].at = place] \/ req' = [req EXCEPT ![q] = Idle]
      BY <1>1, <2>6 DEF LockFile, DeleteFileRow, StatObject, EraseObject, ProbeObject, Go, TypeOK
    <3>3. [req[q] EXCEPT !.at = place].kind \notin {"insert", "update"}
      BY <3>1 DEF DeleteRequest
    <3>4. req' = [req EXCEPT ![q] = [req[q] EXCEPT !.at = place]] \/ req' = [req EXCEPT ![q] = Idle]
      BY <1>1, <3>2 DEF TypeOK
    <3> QED
      BY <2>1, <3>3, <3>4
  <2>7. CASE LookAtMedia(q) \/ RereadMedia(q) \/ DropMedia(q) \/ DropProduct(q)
    <3>1. req[q] \in DeleteRequest
      BY <2>5, <2>7 DEF LookAtMedia, RereadMedia, DropMedia, DropProduct, At
    <3>2. PICK x : /\ req' = [req EXCEPT ![q] = x]
                   /\ \/ x = Idle
                      \/ \E place : x = [req[q] EXCEPT !.at = place]
                      \/ \E m : x = [[req[q] EXCEPT !.m = m] EXCEPT !.at = "lock"]
                      \/ x = Onward(req[q])
                      \/ \E m : x = Onward([req[q] EXCEPT !.m = m])
      <4>1. CASE LookAtMedia(q)
        BY <4>1 DEF LookAtMedia, Go
      <4>2. CASE RereadMedia(q) \/ DropMedia(q)
        BY <4>2 DEF RereadMedia, DropMedia, Go
      <4>3. CASE DropProduct(q)
        BY <1>1, <4>3 DEF DropProduct, Go, TypeOK
      <4> QED
        BY <2>7, <4>1, <4>2, <4>3
    <3>3. x = Idle \/ x.kind = req[q].kind
      BY <3>1, <3>2 DEF Onward, DeleteRequest
    <3> QED
      BY <2>1, <3>1, <3>2, <3>3 DEF DeleteRequest
  <2> QED
    BY <2>2, <2>3, <2>4, <2>6, <2>7 DEF DeleteStep
<1> QED
  BY <1>2, <1>3, <1>4, FavoritesStay

LEMMA FavoriteStep == Inv /\ FavoriteInv /\ [Next]_vars => FavoriteInv'
<1> SUFFICES ASSUME Inv, FavoriteInv, [Next]_vars PROVE FavoriteInv'
  OBVIOUS
<1>1. ASSUME NEW q \in Request, SaveStep(q) \/ DeleteStep(q) \/ Crash(q) PROVE FavoriteInv'
  BY <1>1, SaveFavorites, CommitFavorites, DeleteFavorites DEF SaveStep
<1>2. CASE UNCHANGED vars
  BY <1>2 DEF vars, FavoriteInv, FavoriteOK, Favorites, Saves, Open, Rows, Of
<1> QED
  BY <1>1, <1>2 DEF Next, Rest

\* Of the media of one type of a product two are favourites only after one of the two races
\* that raced records: an edit wrote back a favourite that was cleared meanwhile, or two set
\* one at the same time.  clearFavoriteForProductByType needs no other exception.
THEOREM FavoritesAreRaced == Spec => []FavoritesNeedRace
<1>1. Init => FavoriteInv
  <2> SUFFICES ASSUME Init PROVE FavoriteInv
    OBVIOUS
  <2>1. Saves = {}
    BY DEF Init, Saves, Open
  <2>2. \A m \in Rows : m \in Media /\ media[m] = Shown[m] /\ Shown[m] # Unborn
    BY DEF Init, Rows
  <2> QED
    BY <2>1, <2>2, CatalogueAssumption DEF FavoriteInv
<1>2. FavoriteInv => FavoritesNeedRace
  BY DEF FavoriteInv, FavoritesNeedRace, Favorites
<1> QED
  BY <1>1, <1>2, InvInit, InvStep, FavoriteStep, PTL DEF Spec

==============================================================================
