CONSTANTS
  Boards <- MCBoards
  PerBlock = 1
  Records <- MCRecords
  Sizes = {1, 2, 3}
  MaxErase = 2
  MaxNumber = 4
  Lost = Lost
  NoMark = NoMark
SPECIFICATION Spec
INVARIANT PartialEraseListed
INVARIANT FlightsDistinct
INVARIANT FlightFirst
PROPERTY RecordsKept
PROPERTY NumbersGrow
PROPERTY TrackKept
