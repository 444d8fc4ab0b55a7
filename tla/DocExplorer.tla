---------------------------- MODULE DocExplorer ----------------------------
(***************************************************************************)
(* The documentation explorer of the GraphiQL page: a stack of pages about *)
(* the types and fields of the schema, and a search box whose search is    *)
(* made 200 ms after the last key.  SearchBox and DocExplorer talk through *)
(* that timer only, so a page may be opened between the key and its search.*)
(*                                                                         *)
(* typeMap gives of each type its kind, the types the page lists with it   *)
(* (of a union or interface the possible types, of an object its           *)
(* interfaces) and its fields; a type reference stands for the named type  *)
(* its link leads to.  The text of a page is left out.                     *)
(***************************************************************************)
EXTENDS Naturals, Sequences, SequencesExt

CONSTANTS typeNames,      \* the names of typeMap in its order
          typeMap,
          rootTypes,      \* the names of the root types the schema has
          Searches,       \* the texts of the search box
          noSearch,       \* the empty one
          Found,          \* [Searches -> the names a search matches]
          MaxResults      \* a search stops at 100 results

ASSUME ExplorerAssumption ==
    /\ noSearch \in Searches
    /\ rootTypes \subseteq Range(typeNames)

VARIABLES navStack,
          searchValue,    \* the text of SearchBox
          searching,      \* its debounced search has not been made yet
          overtaken       \* a page was opened while it had not

explorerVars == <<navStack, searchValue, searching, overtaken>>

SearchPage(value)  == [kind |-> "search", value |-> value]
TypePage(n)        == [kind |-> "type", name |-> n]
FieldPage(n, field) == [kind |-> "field", of |-> n, field |-> field]

\* What onClickTypeOrField can be called with.
Pages == {TypePage(n) : n \in Range(typeNames)}
             \union UNION {{FieldPage(n, field) : field \in Range(typeMap[n].fields)} :
                               n \in Range(typeNames)}

ArgLinks(args) == {TypePage(arg.type) : arg \in Range(args)}

-----------------------------------------------------------------------------
(* The links of the pages.                                                  *)

\* One result for the type and one for each field that is found by its own name
\* or by that of an argument; the links to the types of found arguments only.
ResultsOf(n, value) ==
    LET IsMatch(name) == name \in Found[value]
        Result(field) ==
            LET matches == SelectSeq(field.args, LAMBDA arg : IsMatch(arg.name))
                links   == {FieldPage(n, field), TypePage(n)}
            IN  IF IsMatch(field.name) THEN <<links>>
                ELSE IF matches # <<>> THEN <<links \union ArgLinks(matches)>>
                ELSE <<>>
    IN  (IF IsMatch(n) THEN <<{TypePage(n)}>> ELSE <<>>)
            \o FlattenSeq([i \in DOMAIN typeMap[n].fields |->
                               Result(typeMap[n].fields[i])])

SearchDoc(value) ==
    FoldLeft(LAMBDA results, n :
                 IF Len(results) >= MaxResults THEN results
                 ELSE results \o ResultsOf(n, value),
             <<>>, typeNames)

SchemaDoc == {TypePage(n) : n \in rootTypes}

FieldDoc(field) == {TypePage(field.type)} \union ArgLinks(field.args)

TypeDoc(n) ==
    {TypePage(m) : m \in Range(typeMap[n].types)}
        \union UNION {{FieldPage(n, field)} \union FieldDoc(field) :
                          field \in Range(typeMap[n].fields)}

\* What can be clicked on the page that is shown.
Clickable ==
    IF navStack = <<>> THEN SchemaDoc
    ELSE LET navItem == Last(navStack)
         IN  CASE navItem.kind = "search" ->
                      UNION Range(SearchDoc(navItem.value))
               [] navItem.kind = "type"  -> TypeDoc(navItem.name)
               [] navItem.kind = "field" -> FieldDoc(navItem.field)

-----------------------------------------------------------------------------

ExplorerInit ==
    /\ navStack = <<>>
    /\ searchValue = noSearch /\ searching = FALSE
    /\ overtaken = FALSE

\* The explorer of a page that is opened again.
ExplorerOpened ==
    /\ navStack' = <<>>
    /\ searchValue' = noSearch /\ searching' = FALSE
    /\ overtaken' = FALSE

showDoc(typeOrField) ==
    /\ navStack' = IF navStack # <<>> /\ Last(navStack) = typeOrField
                   THEN navStack ELSE Append(navStack, typeOrField)
    /\ overtaken' = (overtaken \/ searching)
    /\ UNCHANGED <<searchValue, searching>>

\* Mutant: every search gets a page of its own.
Searched_mutant(page) == Append(navStack, page)

\* showSearch: the page shown, unless it is the schema's, gives way to a search
\* for something else; a type or a field has no searchValue.
Searched(page) ==
    IF navStack = <<>> THEN <<page>>
    ELSE IF Last(navStack) = page THEN navStack
    ELSE Append(Front(navStack), page)

\* The search box is there on the page of the schema and on a page of results.
shouldSearchBoxAppear == navStack # <<>> => Last(navStack).kind = "search"

\* SearchBox.handleChange.
HandleChange(value) ==
    /\ shouldSearchBoxAppear
    /\ value # searchValue
    /\ searchValue' = value /\ searching' = TRUE
    /\ UNCHANGED <<navStack, overtaken>>

\* The debounced onSearch, with the text of the box at this time.
HandleSearch ==
    /\ searching
    /\ searching' = FALSE
    /\ navStack' = Searched(SearchPage(searchValue))
    /\ UNCHANGED <<searchValue, overtaken>>

HandleNavBackClick ==
    /\ navStack # <<>>
    /\ navStack' = Front(navStack)
    /\ UNCHANGED <<searchValue, searching, overtaken>>

-----------------------------------------------------------------------------

\* As long as no page is opened between a key in the search box and its search,
\* going back never leads to results, and once the search is made the results
\* under all other pages are those of the text in the box.
ResultsAreOfTheBox ==
    ~overtaken =>
        /\ \A i \in 2 .. Len(navStack) : navStack[i].kind # "search"
        /\ navStack # <<>> /\ navStack[1].kind = "search" /\ ~searching =>
               navStack[1].value = searchValue

=============================================================================
