SPECIFICATION FairSpec
CONSTANTS
  VGA_WIDTH = 3
  VGA_HEIGHT = 3
  Chars = {"a", "A", "tab", "text", ">", " ", "newline"}
  Newline = "newline"
  Blank = " "
  Colors = {"grey", "red", "green"}
  LightGrey = "grey"
  Red = "red"
  Green = "green"
  GuiMode <- Asked
  GrubModes <- Offered
  NoMode = NoMode
  FRAMEBUFFER_VIRTUAL_SIZE = 320
  Geometry <- MCGeometry
  TITLE_BAR_HEIGHT = 1
  FONT_GLYPH_SIZE = 1
  NOTES_BUFFER_SIZE = 4
  TextX = 0
  TextY = 0
  Printable = {"a", "A"}
  Keys <- MCKeys
  normal_table <- NormalTable
  shift_table <- ShiftTable
  Nul = "nul"
  Erase = "erase"
  Tab = "tab"
  Capital <- MCCapital
  INPUT_SIZE = 3
  CommandLine <- MCCommandLine
  EchoPrefix <- MCEchoPrefix
  Text = "text"
  Prompt = ">"
VIEW Visible
CHECK_DEADLOCK FALSE
INVARIANTS
  TypeOK
  LineOnScreen
  NothingBehindCursor
  ColorRestored
  OnlyFaultsSpin
  ShiftNeverSticks
  DisplayIsCurrent
  NeverHalfDrawn
PROPERTIES
  FaultReported
