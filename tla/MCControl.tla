------------------------------ MODULE MCControl ------------------------------
\* The programs TLC runs through GeneratedControl.
EXTENDS GeneratedControl

One(ss) == {<<s>> : s \in ss}

\* Three paragraphs, then two sections, of two paragraphs and of one. The prefix
\* and the first paragraph perform ranges of paragraphs, of sections and of both;
\* the others jump, perform inside a range or leave a paragraph early.
SectionBodies ==
    0 :> {<<Perform(2, 3), Work>>, <<Perform(4, 8), Work>>, <<Perform(3, 7)>>}
 @@ 1 :> {<<Work>>, <<Perform(2, 3), GoTo(3)>>, <<Perform(7, 7)>>, <<Perform(5, 6)>>, <<Perform(6, 8)>>, <<Perform(4, 5)>>}
 @@ 2 :> {<<GoToIf(3), Exit, Work>>, <<Perform(3, 3), GoTo(3)>>}
 @@ 3 :> {<<GoToIf(2), Work>>, <<Exit, Work>>}
 @@ 4 :> {<<>>}
 @@ 5 :> One({GoToIf(6), GoToIf(4), GoTo(5), GoToIf(8), Perform(6, 6), Perform(7, 7)})
 @@ 6 :> One({Work, GoToIf(5), GoTo(7), Perform(8, 8)})
 @@ 7 :> {<<>>}
 @@ 8 :> {<<Stop>>, <<GoToIf(6)>>, <<GoToIf(8), Stop>>, <<GoToIf(7), Stop>>}

\* One section: its first paragraph performs a range that may be left for the
\* paragraphs after it and entered again.
LeavingBodies ==
    0 :> {<<Work>>}
 @@ 1 :> {<<>>}
 @@ 2 :> {<<Perform(3, 4), Stop>>, <<Perform(3, 5), Stop>>, <<Perform(4, 5), Stop>>}
 @@ 3 :> One({Work, GoToIf(4), GoToIf(5), GoTo(6)})
 @@ 4 :> One({Work, GoToIf(3), GoToIf(5), GoTo(6)})
 @@ 5 :> One({Work, GoToIf(3), GoTo(4), GoTo(6)})
 @@ 6 :> One({Work, GoTo(3), GoTo(4), GoTo(5), GoToIf(4), Stop})

MCShapes ==
    "sections" :> [n |-> 8, headers |-> {4, 7}, bodies |-> SectionBodies,
                   leftOut |-> {"leave the range", "part of a section", "run off a section",
                               "exit in a section"}]
 @@ "leaves"   :> [n |-> 6, headers |-> {1}, bodies |-> LeavingBodies,
                   leftOut |-> {"run off a section", "exit in a section"}]
=============================================================================
