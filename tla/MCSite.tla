-------------------------------- MODULE MCSite --------------------------------
(***************************************************************************)
(* The stores behind the site for TLC: the content modules, the document   *)
(* library and the uploaded files.  They share no state, so one of them is *)
(* chosen at the start and the others rest.                                *)
(***************************************************************************)
EXTENDS ContentStore, DocumentLibrary, FileStore

\* a visitor whose pages have one row each, so that rows come in between the pages of
\* a walk that goes on
Singly == INSTANCE ContentStore WITH Limit <- 1

VARIABLE part
siteVars == <<part, contentVars, vars, fileVars>>

SiteInit ==
  /\ part \in {"content", "row by row", "library", "files"}
  /\ IF part \in {"content", "row by row"} THEN ContentInit
     ELSE /\ service = "blogs" /\ tracked = {} /\ scene = "walk" /\ item = [i \in Items |-> NoItem]
          /\ given = [i \in Items |-> <<>>] /\ edit = [c \in Editors |-> NoEdit]
          /\ writes = 0 /\ visit = AtHome
  /\ part = "row by row" => scene = "walk" /\ service \in {"chronology", "experts"}
  /\ Init
  /\ FileInit /\ (part # "files" => bucket)

SiteNext ==
  \/ part = "content" /\ ContentNext /\ UNCHANGED <<part, vars, fileVars>>
  \/ /\ part = "row by row" /\ ((\E i \in Items : Singly!createItem(i)) \/ Singly!Visiting)
     /\ UNCHANGED <<part, vars, fileVars>>
  \/ part = "library" /\ Next /\ UNCHANGED <<part, contentVars, fileVars>>
  \/ part = "files" /\ FileNext /\ UNCHANGED <<part, contentVars, vars>>

SiteSpec == SiteInit /\ [][SiteNext]_siteVars

\* requests may change places, and so may files, documents and categories; the
\* configuration gives Editors and Clients the same values, and Files and Documents
Interchangeable == Permutations(Editors) \cup Permutations(Files) \cup Permutations(Categories)
=============================================================================
