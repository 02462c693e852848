\* Every text of up to seven characters, over three digits, a dash, a newline and a letter.
SPECIFICATION MaskingSpec
CONSTANTS
  MinRep = 2  MaxRep = 4
  MinCard = 2  MaxCard = 4
  MinMask = 2  MaxMask = 3
  PhoneMiddle = 0
  MaskLen <- MCMaskLen
  Alphabet <- MCChars
  MaxText = 7
INVARIANTS TypeOK FindingsAreCards LoneCardFound  
