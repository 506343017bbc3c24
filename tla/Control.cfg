\* Three paragraphs and two sections, and a range that GO TO leaves and enters again.
SPECIFICATION Spec
CONSTANTS
    Shapes <- MCShapes
    MaxFrames = 6
INVARIANTS FramesCorrect FollowsCobol
PROPERTY Progress
