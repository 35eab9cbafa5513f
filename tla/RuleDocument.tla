---------------------------- MODULE RuleDocument ----------------------------
(***************************************************************************)
(* The reader of .jev/rules.md (core/src/rules), as functions of the lines *)
(* of a document.  A line is a record of what its text matches: a "##" or  *)
(* "###" heading, a metadata entry "key: value", another text or blank.    *)
(* What it counts for depends on where it stands: an entry behind the      *)
(* first "###" heading of a block is content.                              *)
(***************************************************************************)
EXTENDS Integers, Sequences, FiniteSets
LOCAL INSTANCE SequencesExt
LOCAL INSTANCE FiniteSetsExt

NoRuleId == "none"

RuleHeading(id, valid) == [kind |-> "rule", id |-> id, valid |-> valid]
SectionHeading(name) == [kind |-> "section", name |-> name]
\* The value of an entry, and whether a "!" stands before it.
Entry(key, negated, value) == [kind |-> "entry", key |-> key, negated |-> negated, value |-> value]
Words(words) == [kind |-> "text", words |-> words]
BlankLine == [kind |-> "blank"]

Broken(code) == [status |-> "INVALID", code |-> code]

----------------------------------------------------------------------------
(* Blocks. *)

\* Every "##" heading opens a block that runs to the next one.
CollectRuleBlocks(document) ==
  LET headings == {i \in DOMAIN document : document[i].kind = "rule"}
      starts == SetToSortSeq(headings, <)
      End(i) == Min({j \in headings : j > i} \cup {Len(document) + 1})
  IN  [k \in DOMAIN starts |->
        [heading |-> document[starts[k]],
         body |-> SubSeq(document, starts[k] + 1, End(starts[k]) - 1)]]

\* Only valid ids are counted.
FindDuplicateIds(blocks) ==
  {blocks[i].heading.id : i \in
     {i \in DOMAIN blocks : \E j \in DOMAIN blocks \ {i} :
        /\ blocks[i].heading.valid /\ blocks[j].heading.valid
        /\ blocks[i].heading.id = blocks[j].heading.id}}

----------------------------------------------------------------------------
(* Metadata. *)

CollectMetadataLines(body) ==
  LET end == Min({i \in DOMAIN body : body[i].kind = "section"} \cup {Len(body) + 1})
  IN  SelectSeq(SubSeq(body, 1, end - 1), LAMBDA line : line.kind # "blank")

NoMetadata == [severity |-> "none", evidence |-> "none", scoped |-> FALSE,
               include |-> <<>>, exclude |-> <<>>]

\* What one entry adds, or its failure.
ReadEntry(read, line) ==
  CASE line.kind # "entry" -> Broken("MALFORMED_METADATA")
    [] line.kind = "entry" /\ line.key = "scope" ->
         IF line.value = "" THEN Broken("MALFORMED_METADATA")
         ELSE IF line.negated
         THEN [read EXCEPT !.scoped = TRUE, !.exclude = Append(@, line.value)]
         ELSE [read EXCEPT !.scoped = TRUE, !.include = Append(@, line.value)]
    [] line.kind = "entry" /\ line.key = "severity" ->
         IF read.severity # "none" THEN Broken("DUPLICATE_METADATA")
         ELSE IF line.negated \/ line.value \notin {"error", "warning"} THEN Broken("INVALID_SEVERITY")
         ELSE [read EXCEPT !.severity = line.value]
    [] line.kind = "entry" /\ line.key = "evidence" ->
         IF read.evidence # "none" THEN Broken("DUPLICATE_METADATA")
         ELSE IF line.negated \/ line.value \notin {"code", "docs", "any"} THEN Broken("MALFORMED_METADATA")
         ELSE [read EXCEPT !.evidence = line.value]
    [] OTHER -> Broken("MALFORMED_METADATA")

IsBroken(read) == "status" \in DOMAIN read

\* The first failure ends the reading; what is missing is only found at the end.
ParseRuleMetadata(body) ==
  LET read == FoldLeft(LAMBDA sofar, line : IF IsBroken(sofar) THEN sofar ELSE ReadEntry(sofar, line),
                       NoMetadata, CollectMetadataLines(body))
  IN  IF IsBroken(read) THEN read
      ELSE IF read.severity = "none" THEN Broken("MISSING_SEVERITY")
      ELSE IF read.scoped /\ read.include = <<>> THEN Broken("MALFORMED_METADATA")
      ELSE [read EXCEPT !.evidence = IF @ = "none" THEN "code" ELSE @]

----------------------------------------------------------------------------
(* Sections. *)

SectionNames == {"Rule", "Violation", "Allowed"}

\* joinContent: without the blank lines at both ends.
Trimmed(lines) ==
  LET written == {i \in DOMAIN lines : lines[i].kind # "blank"}
  IN  IF written = {} THEN <<>> ELSE SubSeq(lines, Min(written), Max(written))

\* Variant of CollectSections: a repeated section replaces the first.
CollectLastSections(body) ==
  LET headings == {i \in DOMAIN body : body[i].kind = "section"}
      End(i) == Min({j \in headings : j > i} \cup {Len(body) + 1})
      LastOf(name) == Max({i \in headings : body[i].name = name})
  IN  IF \E i \in headings : body[i].name \notin SectionNames THEN Broken("UNKNOWN_SECTION")
      ELSE [name \in {body[i].name : i \in headings} |->
              Trimmed(SubSeq(body, LastOf(name) + 1, End(LastOf(name)) - 1))]

\* The sections by name; the first heading that is unknown or repeated fails.
CollectSections(body) ==
  LET headings == {i \in DOMAIN body : body[i].kind = "section"}
      End(i) == Min({j \in headings : j > i} \cup {Len(body) + 1})
      odd == {i \in headings : \/ body[i].name \notin SectionNames
                               \/ \E j \in headings : j < i /\ body[j].name = body[i].name}
      At(name) == CHOOSE i \in headings : body[i].name = name
  IN  IF odd # {}
      THEN Broken(IF body[Min(odd)].name \notin SectionNames THEN "UNKNOWN_SECTION"
                  ELSE "DUPLICATE_SECTION")
      ELSE [name \in {body[i].name : i \in headings} |->
              Trimmed(SubSeq(body, At(name) + 1, End(At(name)) - 1))]

ParseRuleSections(body) ==
  LET sections == CollectSections(body)
  IN  CASE IsBroken(sections) -> sections
        [] "Rule" \notin DOMAIN sections -> Broken("MISSING_RULE")
        [] {"Rule", "Violation"} \cap DOMAIN sections = {"Rule"} -> Broken("MISSING_VIOLATION")
        [] {"Rule", "Violation"} \subseteq DOMAIN sections
             /\ <<>> \in {sections["Rule"], sections["Violation"]} -> Broken("EMPTY_SECTION")
        [] OTHER ->
             IF "Allowed" \notin DOMAIN sections THEN sections
             ELSE IF sections["Allowed"] = <<>> THEN Broken("EMPTY_ALLOWED")
             ELSE IF sections["Allowed"] = sections["Violation"] THEN Broken("ALLOWED_EQUALS_VIOLATION")
             ELSE sections

----------------------------------------------------------------------------
(* Rules. *)

\* A block keeps its valid id in every failure.
ParseRuleBlock(block, duplicate) ==
  LET Fails(code) == [status |-> "INVALID", code |-> code,
                      id |-> IF block.heading.valid THEN block.heading.id ELSE NoRuleId]
      metadata == ParseRuleMetadata(block.body)
      sections == ParseRuleSections(block.body)
  IN  IF ~block.heading.valid THEN Fails("INVALID_ID")
      ELSE IF duplicate THEN Fails("DUPLICATE_ID")
      ELSE IF IsBroken(metadata) THEN Fails(metadata.code)
      ELSE IF IsBroken(sections) THEN Fails(sections.code)
      ELSE [status |-> "PARSED", id |-> block.heading.id, metadata |-> metadata,
            sections |-> sections]

\* parseRules: one result for each block, in source order.
ParseRules(document) ==
  LET blocks == CollectRuleBlocks(document)
  IN  IF blocks = <<>> THEN <<[status |-> "INVALID", code |-> "MISSING_ID", id |-> NoRuleId]>>
      ELSE [k \in DOMAIN blocks |->
              ParseRuleBlock(blocks[k], blocks[k].heading.id \in FindDuplicateIds(blocks))]

\* parseRule: the document of a single rule; a failure names no id.
ParseRule(document) ==
  LET blocks == CollectRuleBlocks(document)
      result == ParseRuleBlock(blocks[1], FALSE)
  IN  IF blocks = <<>> THEN Broken("MISSING_ID")
      ELSE IF Len(blocks) > 1 THEN Broken("MULTIPLE_RULES")
      ELSE IF result.status = "PARSED" THEN result ELSE Broken(result.code)
=============================================================================
