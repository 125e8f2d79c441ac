SPECIFICATION PipeSpec
CONSTANTS
    x = x  y = y  z = z  a = a  b = b
    N = 4
    Types <- TwoTypes
    Texts <- ThreeTexts
    Punct = Punct
    ShortTexts <- ShortOnes
    ShortTypes <- Exempt
    MaxGap = 1
    Documents <- FourWords
CONSTRAINT PagesMatter
INVARIANTS
    OfOnePlace
    EachMentionOnce
    OneRowPerFact
