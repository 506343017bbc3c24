---- MODULE ConditionText ----
(* Conditions as a programmer writes them: relations joined by AND and OR, each
   of them whole, or without its subject, or without its subject and operator;
   and what they mean, which is that of the whole relations that result when the
   subject and the operator last stated are put in.  Two abbreviations the
   parser takes otherwise are not written: a connective OR after an operator
   alone that follows AND, and an operand alone after NOT and an operator
   alone. *)
EXTENDS Expressions, FiniteSets, TLC

CONSTANTS MaxRelations,  \* relations in a condition
          Subjects,      \* the subject of each whole relation
          Objects,       \* the object of each relation
          Values_        \* the values of the fields

VARIABLES condition,     \* the tokens written
          relations      \* the relations they stand for, each with how it was
                         \* written and the connective before it
conditionVars == <<condition, relations>>

Written == Len(relations)
LastStated == relations[Written]

(* Operators as they are written, and what they compare. *)
Operators ==
    {[words |-> <<">">>, op |-> ">", not |-> FALSE],
     [words |-> <<"NOT", ">">>, op |-> "<=", not |-> TRUE],
     [words |-> <<"IS", "EQUAL", "TO">>, op |-> "=", not |-> FALSE]}

ConditionInit == condition = <<>> /\ relations = <<>>

Joined(connective) ==
    /\ Written < MaxRelations
    /\ (connective = "first") = (Written = 0)
    /\ connective = "OR" =>
         ~(LastStated.how = "operator" /\ LastStated.connective = "AND")

WriteRelation(connective, words, relation) ==
    /\ condition' = condition \o (IF Written = 0 THEN <<>> ELSE <<connective>>) \o words
    /\ relations' = Append(relations, relation @@ [connective |-> connective])

WriteWhole(connective, negated) ==
    \E o \in Operators :
        /\ Joined(connective)
        /\ ~(negated /\ o.not)
        /\ LET s == Subjects[Written + 1]
           IN  WriteRelation(connective,
                 (IF negated THEN <<"NOT", s>> ELSE <<s>>) \o o.words \o <<Objects[Written + 1]>>,
                 [how |-> "whole", negated |-> negated, left |-> s, op |-> o.op,
                  not |-> FALSE, right |-> Objects[Written + 1]])

(* Without its subject. *)
WriteOperator(connective) ==
    \E o \in Operators :
        /\ Written > 0
        /\ Joined(connective)
        /\ WriteRelation(connective, o.words \o <<Objects[Written + 1]>>,
             [how |-> "operator", negated |-> FALSE, left |-> LastStated.left, op |-> o.op,
              not |-> o.not, right |-> Objects[Written + 1]])

(* Without its subject and its operator. *)
WriteOperand(connective) ==
    /\ Written > 0
    /\ Joined(connective)
    /\ ~LastStated.not
    /\ WriteRelation(connective, <<Objects[Written + 1]>>,
         [how |-> "operand", negated |-> FALSE, left |-> LastStated.left, op |-> LastStated.op,
          not |-> FALSE, right |-> Objects[Written + 1]])

-----------------------------------------------------------------------------
Compare(op, x, y) ==
    CASE op = "=" -> x = y [] op = "<>" -> x # y [] op = ">" -> x > y
      [] op = "<" -> x < y [] op = ">=" -> x >= y [] op = "<=" -> x <= y

(* What the parser's tree means, when the fields have the values v. *)
RECURSIVE Meaning(_, _)
Meaning(tree, v) ==
    CASE tree[1] = "and" -> Meaning(tree[2], v) /\ Meaning(tree[3], v)
      [] tree[1] = "or" -> Meaning(tree[2], v) \/ Meaning(tree[3], v)
      [] tree[1] = "not" -> ~Meaning(tree[2], v)
      [] tree[1] = "paren" -> Meaning(tree[2], v)
      [] tree[1] = "cmp" -> Compare(tree[2], v[tree[3][1]], v[tree[4][1]])

(* What the relations mean: AND binds tighter than OR. *)
Holds_(r, v) == (Compare(r.op, v[r.left], v[r.right])) # r.negated
Groups == {i \in DOMAIN relations : relations[i].connective # "AND"}
GroupEnd(i) == CHOOSE j \in i..Written :
                 (j = Written \/ j + 1 \in Groups) /\ \A k \in (i + 1)..j : k \notin Groups
Intended(v) ==
    \E i \in Groups : \A j \in i..GroupEnd(i) : Holds_(relations[j], v)

Fields == {Subjects[i] : i \in 1..MaxRelations} \cup {Objects[i] : i \in 1..MaxRelations}

MeansIntended(t) ==
    /\ t.ok /\ Current(t) = "THEN"
    /\ \A v \in [Fields -> Values_] : Meaning(t.val, v) = Intended(v)

(* The condition that the parser reads (parse_or_condition, parse_and_condition
   and the abbreviations they complete) is true of the values of its fields when
   the relations it abbreviates are, and the whole of it is read. *)
ConditionsMeant ==
    Written > 0 =>
        MeansIntended(Reading("cond", Start(condition \o <<"THEN", "eof">>)))
====
