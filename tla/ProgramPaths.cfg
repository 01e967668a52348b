SPECIFICATION FairSpec
CONSTANT MaxFrames = 4
INVARIANT TypeOK
INVARIANT RowsAccounted
INVARIANT ExitAccountsForFlows
INVARIANT ShownRowsAreDurable
PROPERTY PictureWithinOne
PROPERTY LastPictureComplete
PROPERTY EndsWhenAsked
PROPERTY ImplementsCounts
PROPERTY ImplementsCapture
