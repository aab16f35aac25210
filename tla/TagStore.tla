------------------------------- MODULE TagStore -------------------------------
(***************************************************************************)
(* The tags of all servers (TagModule.go, db.go, docs/sweetiebot.sql) and   *)
(* the queries on them.  Items are rows shared by every server; a trigger   *)
(* deletes an item with its last tag.  Every command is a goroutine that    *)
(* sends one statement after the other; each statement commits.             *)
(*                                                                          *)
(* A query is a sequence of alternatives ("|"), each a sequence of factors  *)
(* ("+"): [neg, tags] a tag name, or [neg, sub] a query in parentheses.     *)
(***************************************************************************)
EXTENDS Integers, Sequences, SequencesExt, FiniteSets

CONSTANTS Worker,                 (* goroutines of commands                       *)
          Guild, TagName, Content,
          Existing,               (* the tags there are at first                  *)
          Importable,             (* servers with Basic.Importable                *)
          MaxUnique,              (* maxPublicUniqueItems                         *)
          Queries,                (* what members search for                      *)
          MaxRows, MaxWork        (* bounds: rows of a table; commands            *)

ASSUME TagAssumption ==
  /\ Importable \subseteq Guild
  /\ IsFiniteSet(Existing) /\ Existing \subseteq [id : 1..Cardinality(Existing), name : TagName, guild : Guild]
  /\ \A s, t \in Existing : s.id = t.id => s = t
  /\ {MaxUnique, MaxRows, MaxWork} \subseteq Nat

(* An alternative or parentheses with nothing in them make no valid SQL. *)
TagFactor == [neg : BOOLEAN, tags : SUBSET TagName]
AlternativesOf(factors) == Seq(Seq(factors) \ {<< >>}) \ {<< >>}
Factor == TagFactor \cup [neg : BOOLEAN, sub : AlternativesOf(TagFactor)]
ASSUME QueryAssumption == Queries \subseteq AlternativesOf(Factor)

VARIABLES
  tagRows,    (* tags: {[id, name, guild]}                                        *)
  itemRows,   (* items: {[id, content]}                                           *)
  links,      (* itemtags: {<<item, tag>>}                                        *)
  nextID,     (* AUTO_INCREMENT of tags and items                                 *)
  job,        (* where each command stands                                        *)
  work        (* bound used up                                                    *)

tvars == <<tagRows, itemRows, links, nextID, job, work>>

TInit ==
  /\ tagRows = Existing /\ itemRows = {} /\ links = {}
  /\ nextID = [tags |-> Cardinality(Existing) + 1, items |-> 1]
  /\ job = [w \in Worker |-> [at |-> "idle"]] /\ work = 0

-----------------------------------------------------------------------------
(* Statements *)

(* Where a name is unknown, GetTag returns an error and the command ends. *)
TagIDs(names, g) == {t.id : t \in {r \in tagRows : r.guild = g /\ r.name \in names}}
AllExist(names, g) == \A n \in names : \E r \in tagRows : r.guild = g /\ r.name = n
OfGuild(g) == {t.id : t \in {r \in tagRows : r.guild = g}}

CountItems(g) == Cardinality({l[1] : l \in {k \in links : k[2] \in OfGuild(g)}})
GetItemTags(i, g) == {r.name : r \in {s \in tagRows : s.guild = g /\ <<i, s.id>> \in links}}

(* A row of itemtags deleted takes its item with it when it was the last. *)
Unlink(gone) ==
  /\ links' = links \ gone
  /\ itemRows' = {i \in itemRows : (\E l \in gone \cap links : l[1] = i.id) => \E l \in links \ gone : l[1] = i.id}

DropTags(ids) == tagRows' = {r \in tagRows : r.id \notin ids} /\ Unlink({l \in links : l[2] \in ids})

Begin1(w) == job[w].at = "idle" /\ work < MaxWork /\ work' = work + 1
Goto(w, j) == job' = [job EXCEPT ![w] = j]
Done(w) == Goto(w, [at |-> "idle"])

-----------------------------------------------------------------------------
(* !new, !delete and !import *)

(* A name the server already has is refused by its unique key. *)
New(w, g, n) ==
  /\ Begin1(w)
  /\ ~AllExist({n}, g) /\ nextID.tags <= MaxRows
  /\ tagRows' = tagRows \cup {[id |-> nextID.tags, name |-> n, guild |-> g]}
  /\ nextID' = [nextID EXCEPT !.tags = @ + 1]
  /\ UNCHANGED <<itemRows, links, job>>

Delete(w, g, n) ==
  /\ Begin1(w)
  /\ AllExist({n}, g)
  /\ Goto(w, [at |-> "delete", guild |-> g, name |-> n])
  /\ UNCHANGED <<tagRows, itemRows, links, nextID>>

DeleteTag(w) ==
  /\ job[w].at = "delete"
  /\ DropTags(TagIDs({job[w].name}, job[w].guild))
  /\ Done(w) /\ UNCHANGED <<nextID, work>>

(* From any server that lets itself be imported, itself included. *)
Import(w, g, other, n, m) ==
  /\ Begin1(w)
  /\ other \in Importable /\ AllExist({n}, other) /\ AllExist({m}, g)
  /\ \E s \in TagIDs({n}, other), t \in TagIDs({m}, g) : Goto(w, [at |-> "import", guild |-> g, source |-> s, target |-> t])
  /\ UNCHANGED <<tagRows, itemRows, links, nextID>>

(* INSERT IGNORE: what has gone in the meantime adds nothing. *)
ImportTag(w) ==
  /\ job[w].at = "import"
  /\ links' = links \cup (IF \E r \in tagRows : r.id = job[w].target
                          THEN {<<l[1], job[w].target>> : l \in {k \in links : k[2] = job[w].source}} ELSE {})
  /\ Done(w) /\ UNCHANGED <<tagRows, itemRows, nextID, work>>

-----------------------------------------------------------------------------
(* !add <tags> <content> *)
AddTags(w, g, names, x) ==
  /\ Begin1(w)
  /\ CountItems(g) < MaxUnique /\ AllExist(names, g)
  /\ Goto(w, [at |-> "find", guild |-> g, tags |-> TagIDs(names, g), content |-> x])
  /\ UNCHANGED <<tagRows, itemRows, links, nextID>>

(* The function AddItem: a SELECT, which fails on two rows, then an INSERT.  Nothing
   keeps two commands from inserting the same content. *)
AddItem(w) ==
  /\ job[w].at = "find"
  /\ LET rows == {i \in itemRows : i.content = job[w].content}
     IN CASE rows = {} -> Goto(w, [job[w] EXCEPT !.at = "insert"])
          [] Cardinality(rows) = 1 -> \E i \in rows : Goto(w, [at |-> "link", guild |-> job[w].guild, tags |-> job[w].tags, item |-> i.id])
          [] OTHER -> Done(w)
  /\ UNCHANGED <<tagRows, itemRows, links, nextID, work>>

InsertItem(w) ==
  /\ job[w].at = "insert" /\ nextID.items <= MaxRows
  /\ itemRows' = itemRows \cup {[id |-> nextID.items, content |-> job[w].content]}
  /\ nextID' = [nextID EXCEPT !.items = @ + 1]
  /\ Goto(w, [at |-> "link", guild |-> job[w].guild, tags |-> job[w].tags, item |-> nextID.items])
  /\ UNCHANGED <<tagRows, links, work>>

(* One tag after the other; the error of a foreign key is not looked at. *)
AddTag(w) ==
  /\ job[w].at = "link"
  /\ \E t \in job[w].tags :
       /\ links' = links \cup (IF (\E i \in itemRows : i.id = job[w].item) /\ (\E r \in tagRows : r.id = t)
                               THEN {<<job[w].item, t>>} ELSE {})
       /\ IF job[w].tags = {t} THEN Done(w) ELSE Goto(w, [job[w] EXCEPT !.tags = @ \ {t}])
  /\ UNCHANGED <<tagRows, itemRows, nextID, work>>

-----------------------------------------------------------------------------
(* !remove <tags> <content>, or with * or no tags from every tag of the server; of
   several rows of a content the database returns one *)
RemoveAll(w, g, x) ==
  /\ Begin1(w)
  /\ \E i \in itemRows : i.content = x /\ GetItemTags(i.id, g) # {}
                         /\ Goto(w, [at |-> "removeItem", guild |-> g, item |-> i.id])
  /\ UNCHANGED <<tagRows, itemRows, links, nextID>>

(* A bug a change could bring: the statement without the join on the server. *)
RemoveItemEverywhere(w) ==
  /\ job[w].at = "removeItem"
  /\ Unlink({l \in links : l[1] = job[w].item})
  /\ Done(w) /\ UNCHANGED <<tagRows, nextID, work>>

RemoveItem(w) ==
  /\ job[w].at = "removeItem"
  /\ Unlink({l \in links : l[1] = job[w].item /\ l[2] \in OfGuild(job[w].guild)})
  /\ Done(w) /\ UNCHANGED <<tagRows, nextID, work>>

RemoveTags(w, g, names, x) ==
  /\ Begin1(w)
  /\ AllExist(names, g)
  /\ \E i \in itemRows : i.content = x /\ Goto(w, [at |-> "unlink", guild |-> g, tags |-> TagIDs(names, g), item |-> i.id])
  /\ UNCHANGED <<tagRows, itemRows, links, nextID>>

RemoveTag(w) ==
  /\ job[w].at = "unlink"
  /\ \E t \in job[w].tags :
       /\ Unlink({<<job[w].item, t>>})
       /\ IF job[w].tags = {t} THEN Done(w) ELSE Goto(w, [job[w] EXCEPT !.tags = @ \ {t}])
  /\ UNCHANGED <<tagRows, nextID, work>>

(* The owner's clean-up of servers long gone (DebugModule.go) ends with the tags. *)
RemoveGuildTags(w, g) ==
  /\ Begin1(w)
  /\ OfGuild(g) # {}
  /\ Goto(w, [at |-> "removeGuild", guild |-> g])
  /\ UNCHANGED <<tagRows, itemRows, links, nextID>>

CallRemoveGuild(w) ==
  /\ job[w].at = "removeGuild"
  /\ DropTags(OfGuild(job[w].guild))
  /\ Done(w) /\ UNCHANGED <<nextID, work>>

TNext ==
  \E w \in Worker :
    \/ \E g \in Guild, n \in TagName : New(w, g, n) \/ Delete(w, g, n)
    \/ \E g, other \in Guild, n, m \in TagName : Import(w, g, other, n, m)
    \/ \E g \in Guild, names \in SUBSET TagName \ {{}}, x \in Content : AddTags(w, g, names, x) \/ RemoveTags(w, g, names, x)
    \/ \E g \in Guild, x \in Content : RemoveAll(w, g, x)
    \/ \E g \in Guild : RemoveGuildTags(w, g)
    \/ ImportTag(w) \/ AddItem(w) \/ InsertItem(w) \/ AddTag(w) \/ RemoveItem(w) \/ RemoveTag(w) \/ DeleteTag(w) \/ CallRemoveGuild(w)

TSpec == TInit /\ [][TNext]_tvars

-----------------------------------------------------------------------------
(* Queries.  BuildWhereClause writes SQL: a tag becomes "item IN (... Tag = ?)",
   and where "tag|tag" stand side by side their lists become one, so that what
   stands before and after them is bound to both. *)
IsTag(factor) == "tags" \in DOMAIN factor
Merges(before, after) == IsTag(Last(before)) /\ IsTag(Head(after)) /\ ~Head(after).neg

MergeNext(clauses, alternative) ==
  IF clauses # << >> /\ Merges(Last(clauses), alternative)
  THEN LET c == Last(clauses)
           joined == [Last(c) EXCEPT !.tags = @ \cup Head(alternative).tags]
       IN Append(Front(clauses), Front(c) \o <<joined>> \o Tail(alternative))
  ELSE Append(clauses, alternative)
BuildWhereClause(q) == FoldLeft(MergeNext, << >>, q)

(* NOT binds more than AND, AND more than OR; guild g's names, one level of parentheses. *)
HoldsFlat(f, i, g) == f.neg # (GetItemTags(i, g) \cap f.tags # {})
HoldsAny(clauses, i, g) == \E c \in Range(clauses) : \A f \in Range(c) : HoldsFlat(f, i, g)
Holds(f, i, g) == IF IsTag(f) THEN HoldsFlat(f, i, g) ELSE f.neg # HoldsAny(BuildWhereClause(f.sub), i, g)

NamesOf(q) == UNION {UNION {IF IsTag(f) THEN f.tags ELSE UNION {UNION {h.tags : h \in Range(d)} : d \in Range(f.sub)} : f \in Range(c)} : c \in Range(q)}
Rows == {l \in links : \E i \in itemRows : i.id = l[1]}
ContentsOf(rows) == {i.content : i \in {j \in itemRows : \E l \in rows : l[1] = j.id}}

(* !tags and !pick: WHERE clause AND T.Guild = ? *)
Tags(q, g) ==
  LET clauses == BuildWhereClause(q)
  IN ContentsOf({l \in Rows : \E k \in DOMAIN clauses :
       (\A f \in Range(clauses[k]) : Holds(f, l[1], g)) /\ (k = Len(clauses) => l[2] \in OfGuild(g))})

(* A bug a change could bring: !searchtags without the parentheses, as !tags is. *)
SearchTagsBare(q, g) == Tags(q, g)

(* !searchtags: WHERE (clause) AND T.Guild = ?, and on the content. *)
SearchTags(q, g) ==
  ContentsOf({l \in Rows : l[2] \in OfGuild(g) /\ \E c \in Range(BuildWhereClause(q)) : \A f \in Range(c) : Holds(f, l[1], g)})

(* What the query says, read by the usage text: "tag1 OR (tag2 AND NOT tag3)". *)
Says(f, i, g) ==
  IF IsTag(f) THEN HoldsFlat(f, i, g) ELSE f.neg # HoldsAny(f.sub, i, g)
Plain(q) == \A k \in 1..(Len(q) - 1) : Merges(q[k], q[k + 1]) => Len(q[k]) = 1 /\ Len(q[k + 1]) = 1 /\ ~Last(q[k]).neg
AllPlain(q) == Plain(q) /\ \A c \in Range(q) : \A f \in Range(c) : IsTag(f) \/ Plain(f.sub)
Answer1(q, g) ==
  ContentsOf({l \in Rows : l[2] \in OfGuild(g) /\ \E c \in Range(q) : \A f \in Range(c) : Says(f, l[1], g)})

(* !searchtags returns the items of this server, and of no other, that the query
   describes, as long as "tag|tag" does not stand next to "+" or "-" without
   parentheses (TagModule.go, BuildWhereClause); so does !tags where every
   alternative but the last requires one of the server's tags. *)
SearchAsWritten ==
  \A q \in Queries, g \in Guild :
    AllExist(NamesOf(q), g) /\ AllPlain(q) =>
      /\ SearchTags(q, g) = Answer1(q, g)
      /\ (\A k \in 1..(Len(q) - 1) : \E f \in Range(q[k]) : IsTag(f) /\ ~f.neg) => Tags(q, g) = Answer1(q, g)

(* Items are shared, yet what a command of one server does leaves every other
   server's tags with the items they had: removing and deleting take an item
   away only with its last tag anywhere. *)
Held(g) == {<<p[1].name, p[2].content>> : p \in {q \in tagRows \X itemRows : q[1].guild = g /\ <<q[2].id, q[1].id>> \in links}}
ServersApart ==
  [][\A g \in Guild : Held(g)' # Held(g) =>
       \E w \in Worker : job[w].at # "idle" /\ job[w].guild = g /\ job'[w] # job[w]]_tvars
=============================================================================
